---- MODULE Spec2Model ----
(***************************************************************************)
(* Sub-agent execution engine of gemini-cli-gemma: the AbortSignalManager  *)
(* (interrupt stack) and the AgentExecutor run loop with its turn state    *)
(* machine, completion protocol, tool dispatch and recovery turn.          *)
(***************************************************************************)
EXTENDS Integers, Sequences, FiniteSets, TLC

VARIABLES
  stack,              \* AbortSignalManager.contextStack: Seq of [ctrl, isHard]
  aborted,            \* abort reason of every AbortController still referenced
  nextCtrl,           \* number of AbortControllers created so far
  pc,                 \* position of run(): idle/creating/model/tools/waitInput/done/thrown
  inRecovery,         \* the turn in progress is executeFinalWarningTurn's
  turnCounter,        \* run(): turnCounter
  terminateReason,    \* run(): terminateReason
  finalResult,        \* run(): finalResult
  result,             \* OutputObject.result returned by run()
  turnCtrl,           \* the AbortController whose signal the turn in progress runs under
  sentMessage,        \* the message of the model call in progress (currentMessage
                      \* or recoveryMessage as passed to executeTurn)
  calls,              \* functionCalls of the turn in progress
  toolState,          \* per invocation: none / running / ok / err / cancelled
  syncParts,          \* processFunctionCalls: syncResponseParts
  nextMessage,        \* processFunctionCalls: the nextMessage it returned (none while it runs)
  taskCompleted,      \* processFunctionCalls: taskCompleted
  submittedOutput,    \* processFunctionCalls: submittedOutput
  timeoutAborted,     \* run(): timeoutController.signal.aborted
  graceAborted,       \* executeFinalWarningTurn: graceTimeoutController.signal.aborted
  interruptHandled,   \* Config: isSubagentInterruptHandled()
  interruptUserInput, \* Config: getSubagentInterruptUserInput()
  opPc,               \* operator key handler: idle / armed (setHardAbort done)
  presses,            \* number of operator key presses so far
  issued,             \* history: the interrupts the operator issued, by the turn
                      \* handle that was current at abortCurrent()
  def,                \* the AgentDefinition the executor was created with
  completionOrder,    \* history: order in which this turn's tool executions returned
  originalReason,     \* executeFinalWarningTurn: reason
  recoveryEvents,     \* what executeFinalWarningTurn emitted and logged when it ended
  externalAborted,    \* run(): signal.aborted of the caller's AbortSignal
  chatSession,        \* the OllamaChat: its history, its open response stream and
                      \* the signal of the callOllamaModel reading it
  fnIn,               \* input of the helper function applied on its own
  fnOut               \* its result

mgrVars == <<stack, aborted, nextCtrl>>
ctlVars == <<pc, inRecovery, turnCounter, terminateReason, finalResult,
             result, turnCtrl, sentMessage, graceAborted, originalReason,
             recoveryEvents>>
turnVars == <<calls, toolState, syncParts, nextMessage, taskCompleted,
              submittedOutput, completionOrder>>
uiVars == <<interruptHandled, interruptUserInput>>
fnVars == <<fnIn, fnOut>>
envVars == <<timeoutAborted, def, externalAborted, chatSession, fnVars>>
opVars == <<opPc, presses, issued>>
runVars == <<ctlVars, turnVars, uiVars, envVars>>
vars == <<mgrVars, runVars, opVars>>

(***************************************************************************)
(* Bounds                                                                  *)
(***************************************************************************)
MaxDepth == 3        \* frames pushed in the manager-only specification
MaxCtrl == 4         \* AbortControllers created in the manager-only specification
MaxTurnsBound == 2   \* largest runConfig.max_turns explored
MaxCalls == 2        \* invocations in one model message
MaxPresses == 2      \* operator key presses in one run
MaxToolRefs == 2      \* entries of toolConfig.tools
MaxSends == 4        \* sendMessageStream calls on one OllamaChat
MaxChunks == 2       \* chunks of one response stream
MaxRuns == 2         \* runs of executors created for one definition
MaxStr == 2          \* characters of a name or an argument value
MaxHistory == 4      \* items of a sub-agent event history

(***************************************************************************)
(* AbortSignalManager (src/packages/core/src/common/abort-signal-manager.ts)*)
(***************************************************************************)
NoCtrl == 0
NULL == "null"
SINGLE_INTERRUPT == "SINGLE_INTERRUPT"
DOUBLE_INTERRUPT == "DOUBLE_INTERRUPT"
NotAborted == "none"

\* AbortController.abort(reason): the first abort wins, later ones are no-ops.
Abort(ab, c, reason) ==
  IF ab[c] = NotAborted THEN [ab EXCEPT ![c] = reason] ELSE ab

\* new AbortController(): a fresh handle, not aborted.
NewController(ab, n) == ab @@ ((n + 1) :> NotAborted)

\* The controllers still referenced: by a frame of the stack or by the turn in
\* progress (tc). The others are garbage and are dropped from `aborted`.
Referenced(ab, s, tc) ==
  LET live == {s[i].ctrl : i \in 1..Len(s)} \cup {tc}
  IN [c \in (DOMAIN ab) \cap live |-> ab[c]]

getCurrentContext(s) == IF Len(s) = 0 THEN NULL ELSE s[Len(s)]

startAgentSession(s) == Append(s, [ctrl |-> NoCtrl, isHard |-> FALSE])

endAgentSession(s) == IF Len(s) = 0 THEN s ELSE SubSeq(s, 1, Len(s) - 1)

\* setCurrentTurnController that installs the handle and keeps the hard flag.
setCurrentTurnController_KeepsHardFlag(s, c) ==
  IF Len(s) = 0 THEN s
  ELSE [s EXCEPT ![Len(s)].ctrl = c]

setCurrentTurnController(s, c) ==
  IF Len(s) = 0 THEN s
  ELSE [s EXCEPT ![Len(s)] = [ctrl |-> c, isHard |-> FALSE]]

\* setHardAbort that leaves the flag as it is.
setHardAbort_Ignored(s, isHard) == s

setHardAbort(s, isHard) ==
  IF Len(s) = 0 THEN s
  ELSE [s EXCEPT ![Len(s)].isHard = isHard]

\* abortCurrent that falls back to the parent frame when the top has no handle.
abortCurrent_FallsBackToParent(s, ab) ==
  IF Len(s) = 0 THEN ab
  ELSE IF s[Len(s)].ctrl = NoCtrl
       THEN IF Len(s) = 1 \/ s[Len(s) - 1].ctrl = NoCtrl THEN ab
            ELSE Abort(ab, s[Len(s) - 1].ctrl, SINGLE_INTERRUPT)
       ELSE Abort(ab, s[Len(s)].ctrl,
                  IF s[Len(s)].isHard THEN DOUBLE_INTERRUPT ELSE SINGLE_INTERRUPT)

\* abortCurrent reaching the outermost frame instead of the innermost one.
abortCurrent_Outermost(s, ab) ==
  IF Len(s) = 0 \/ s[1].ctrl = NoCtrl THEN ab
  ELSE Abort(ab, s[1].ctrl,
             IF s[1].isHard THEN DOUBLE_INTERRUPT ELSE SINGLE_INTERRUPT)

abortCurrent(s, ab) ==
  IF Len(s) = 0 \/ s[Len(s)].ctrl = NoCtrl THEN ab
  ELSE Abort(ab, s[Len(s)].ctrl,
             IF s[Len(s)].isHard THEN DOUBLE_INTERRUPT ELSE SINGLE_INTERRUPT)

isCurrentInterruptHard(s) == IF Len(s) = 0 THEN FALSE ELSE s[Len(s)].isHard

(***************************************************************************)
(* Messages, invocations and response parts                                *)
(***************************************************************************)
\* AgentTerminateMode
GOAL == "GOAL"
ABORTED == "ABORTED"
TIMEOUT == "TIMEOUT"
MAX_TURNS == "MAX_TURNS"
ERROR == "ERROR"
ERROR_NO_COMPLETE_TASK_CALL == "ERROR_NO_COMPLETE_TASK_CALL"
Recoverable == {TIMEOUT, MAX_TURNS, ERROR_NO_COMPLETE_TASK_CALL}

TASK_COMPLETE_TOOL_NAME == "complete_task"
ValidOutputs == {"v1", "v2"}          \* output values the schema accepts
OutputArgs == ValidOutputs \cup {"invalid", "missing"}
RegisteredTools == {"ls"}             \* names in the agent's filtered registry
ToolNames == RegisteredTools \cup {"bad"}
OperatorTexts == {"focus on tests instead", "stop and summarise"}

Invocations ==
  [name : {TASK_COMPLETE_TOOL_NAME}, arg : OutputArgs]
    \cup [name : ToolNames, arg : {"none"}]

RECURSIVE SeqsUpTo(_, _)
SeqsUpTo(S, n) ==
  IF n = 0 THEN {<<>>}
  ELSE LET shorter == SeqsUpTo(S, n - 1)
       IN shorter \cup {Append(q, x) : q \in {r \in shorter : Len(r) = n - 1}, x \in S}

CallSeqs == SeqsUpTo(Invocations, MaxCalls)

TextPart(t) == [kind |-> "text", idx |-> 0, name |-> "", resp |-> t]
ResponsePart(i, n, r) == [kind |-> "functionResponse", idx |-> i, name |-> n, resp |-> r]
UserMessage(ps) == [role |-> "user", parts |-> ps]

QueryMessage == UserMessage(<<TextPart("query")>>)
NoMessage == UserMessage(<<>>)
\* getFinalWarningMessage: the explanation depends on the reason.
getFinalWarningMessage(reason) ==
  IF reason = TIMEOUT THEN "final warning: time limit"
  ELSE IF reason = MAX_TURNS THEN "final warning: turn limit"
  ELSE "final warning: no complete_task"

FinalWarningMessage(reason) == UserMessage(<<TextPart(getFinalWarningMessage(reason))>>)
InterruptMessage(t) == UserMessage(<<TextPart(t)>>)
DiagnosticPart == TextPart("All tool calls failed or were unauthorized.")

\* new OllamaChat(modelConfig, systemInstruction): empty history, no stream.
\* No interrupt issued yet.
NoneIssued == [hardOn |-> {}, softOn |-> {}]

NewChat == [history |-> <<>>, stream |-> "none", chunks |-> 0, signalAborted |-> FALSE]

Definitions ==
  [hasOutput : BOOLEAN, maxTurns : 1..MaxTurnsBound, isLocal : BOOLEAN,
   tools : {RegisteredTools}]

(***************************************************************************)
(* AgentExecutor.processFunctionCalls: the synchronous pass over the       *)
(* invocations (complete_task, unauthorized calls, scheduling)             *)
(***************************************************************************)
EmptyPass == [parts |-> <<>>, completed |-> FALSE, output |-> NULL, scheduled |-> {}]

\* complete_task whose failed validation does not take the completion back.
CompleteTaskCall_KeepsCompletion(st, call, i, d) ==
  IF st.completed
  THEN [st EXCEPT !.parts = Append(@, ResponsePart(i, call.name, "duplicate"))]
  ELSE IF d.hasOutput
       THEN IF call.arg = "missing"
            THEN [st EXCEPT !.completed = TRUE,
                            !.parts = Append(@, ResponsePart(i, call.name, "missing"))]
            ELSE IF call.arg \notin ValidOutputs
                 THEN [st EXCEPT !.completed = TRUE,
                                 !.parts = Append(@, ResponsePart(i, call.name, "invalid"))]
                 ELSE [st EXCEPT !.completed = TRUE, !.output = call.arg,
                                 !.parts = Append(@, ResponsePart(i, call.name, "submitted"))]
       ELSE [st EXCEPT !.completed = TRUE, !.output = "Task completed successfully.",
                       !.parts = Append(@, ResponsePart(i, call.name, "marked"))]

\* complete_task without the check for an earlier completion in the turn.
CompleteTaskCall_NoDuplicateCheck(st, call, i, d) ==
  IF d.hasOutput
  THEN IF call.arg = "missing"
       THEN [st EXCEPT !.completed = FALSE,
                       !.parts = Append(@, ResponsePart(i, call.name, "missing"))]
       ELSE IF call.arg \notin ValidOutputs
            THEN [st EXCEPT !.completed = FALSE,
                            !.parts = Append(@, ResponsePart(i, call.name, "invalid"))]
            ELSE [st EXCEPT !.completed = TRUE, !.output = call.arg,
                            !.parts = Append(@, ResponsePart(i, call.name, "submitted"))]
  ELSE [st EXCEPT !.completed = TRUE, !.output = "Task completed successfully.",
                  !.parts = Append(@, ResponsePart(i, call.name, "marked"))]

CompleteTaskCall(st, call, i, d) ==
  IF st.completed
  THEN [st EXCEPT !.parts = Append(@, ResponsePart(i, call.name, "duplicate"))]
  ELSE IF d.hasOutput
       THEN IF call.arg = "missing"
            THEN [st EXCEPT !.completed = FALSE,
                            !.parts = Append(@, ResponsePart(i, call.name, "missing"))]
            ELSE IF call.arg \notin ValidOutputs
                 THEN [st EXCEPT !.completed = FALSE,
                                 !.parts = Append(@, ResponsePart(i, call.name, "invalid"))]
                 ELSE [st EXCEPT !.completed = TRUE, !.output = call.arg,
                                 !.parts = Append(@, ResponsePart(i, call.name, "submitted"))]
       ELSE [st EXCEPT !.completed = TRUE, !.output = "Task completed successfully.",
                       !.parts = Append(@, ResponsePart(i, call.name, "marked"))]

\* The allow-list taken from every name the model may utter, not the registry.
allowedToolNames_Unfiltered(d) == ToolNames \cup {TASK_COMPLETE_TOOL_NAME}

allowedToolNames(d) == d.tools \cup {TASK_COMPLETE_TOOL_NAME}

StandardToolCall(st, call, i, d) ==
  IF call.name \notin allowedToolNames(d)
  THEN [st EXCEPT !.parts = Append(@, ResponsePart(i, call.name, "unauthorized"))]
  ELSE [st EXCEPT !.scheduled = @ \cup {i}]

RECURSIVE SyncPass(_, _, _, _)
SyncPass(st, cs, i, d) ==
  IF i > Len(cs) THEN st
  ELSE SyncPass(IF cs[i].name = TASK_COMPLETE_TOOL_NAME
                THEN CompleteTaskCall(st, cs[i], i, d)
                ELSE StandardToolCall(st, cs[i], i, d),
                cs, i + 1, d)

\* asyncResults of Promise.all: one response part per scheduled execution,
\* in the order the executions were scheduled.
RECURSIVE AsyncParts(_, _, _)
AsyncParts(cs, ts, i) ==
  IF i > Len(cs) THEN <<>>
  ELSE (IF ts[i] = "none" THEN <<>> ELSE <<ResponsePart(i, cs[i].name, ts[i])>>)
         \o AsyncParts(cs, ts, i + 1)

toolResponseParts(sp, cs, ts, completed) ==
  LET ps == sp \o AsyncParts(cs, ts, 1)
  IN IF Len(cs) > 0 /\ Len(ps) = 0 /\ ~completed THEN <<DiagnosticPart>> ELSE ps

(***************************************************************************)
(* AgentExecutor.run / executeTurn / executeFinalWarningTurn               *)
(***************************************************************************)
Active == pc \in {"creating", "model", "tools", "waitInput"}
InTurn == pc \in {"model", "tools", "waitInput"}

\* combinedSignal.aborted of the turn in progress: AbortSignal.any of the turn
\* controller and the wall timer (regular turn) or the grace timer (recovery).
turnSignalAborted ==
  aborted[turnCtrl] # NotAborted \/ (IF inRecovery THEN graceAborted ELSE timeoutAborted)

\* timeoutSignal.aborted as passed to executeTurn.
timeoutSignalAborted == IF inRecovery THEN graceAborted ELSE timeoutAborted

StopResult(reason, fr) == [status |-> "stop", reason |-> reason, msg |-> NoMessage, fr |-> fr]
ContinueResult(msg) == [status |-> "continue", reason |-> NULL, msg |-> msg, fr |-> NULL]

\* textResponse with the complete_task fragment removed.
TextResult == "model text"

\* A turn without completion taken for a protocol violation.
ProcessedTurnResult_StopsWithoutCompletion(completed, output, msg) ==
  IF completed
  THEN StopResult(GOAL, IF output = "Task completed successfully." THEN TextResult ELSE output)
  ELSE StopResult(ERROR_NO_COMPLETE_TASK_CALL, NULL)

\* executeTurn, from the return of processFunctionCalls to its own return.
ProcessedTurnResult(completed, output, msg) ==
  IF completed
  THEN StopResult(GOAL, IF output \in {NULL, "Task completed successfully."}
                        THEN TextResult ELSE output)
  ELSE ContinueResult(msg)

\* executeFinalWarningTurn logging every recovery attempt as failed.
RecoveryEnd_AlwaysLogsFailure(reason, success) ==
  <<[type |-> IF success THEN "THOUGHT_CHUNK" ELSE "ERROR",
     reason |-> reason, success |-> success],
    [type |-> "RecoveryAttemptEvent", reason |-> reason, success |-> FALSE]>>

\* executeFinalWarningTurn coming to its end: the activity it emits (a thought
\* chunk on success, an error with context 'recovery_turn' otherwise) and the
\* RecoveryAttemptEvent its finally block logs.
RecoveryEnd(reason, success) ==
  <<[type |-> IF success THEN "THOUGHT_CHUNK" ELSE "ERROR",
     reason |-> reason, success |-> success],
    [type |-> "RecoveryAttemptEvent", reason |-> reason, success |-> success]>>

\* run(): the result returned for a reason and finalResult, and the finally block.
Return(reason, fr) ==
  /\ pc' = "done"
  /\ terminateReason' = reason
  /\ finalResult' = fr
  /\ result' = IF fr # NULL THEN fr
               ELSE IF reason = GOAL THEN "Task completed."
               ELSE "Agent execution was terminated before completion."
  /\ stack' = endAgentSession(stack)
  /\ turnCtrl' = NoCtrl
  /\ aborted' = Referenced(aborted, endAgentSession(stack), NoCtrl)
  /\ sentMessage' = NoMessage
  /\ UNCHANGED <<nextCtrl, inRecovery, turnCounter, graceAborted, originalReason>>

\* run() re-throwing without its finally block popping the frame.
Throw_KeepsFrame ==
  /\ pc' = "thrown"
  /\ stack' = stack
  /\ turnCtrl' = NoCtrl
  /\ aborted' = Referenced(aborted, stack, NoCtrl)
  /\ sentMessage' = NoMessage
  /\ UNCHANGED <<nextCtrl, inRecovery, turnCounter, terminateReason, finalResult,
                 result, graceAborted, originalReason, recoveryEvents>>

\* run()'s catch block re-throwing, and the finally block.
Throw ==
  /\ pc' = "thrown"
  /\ stack' = endAgentSession(stack)
  /\ turnCtrl' = NoCtrl
  /\ aborted' = Referenced(aborted, endAgentSession(stack), NoCtrl)
  /\ sentMessage' = NoMessage
  /\ UNCHANGED <<nextCtrl, inRecovery, turnCounter, terminateReason, finalResult,
                 result, graceAborted, originalReason, recoveryEvents>>

\* executeFinalWarningTurn up to the model call of its executeTurn; s, ab, n are
\* the manager stack, the controllers and their count at that point. The turn
\* controller made for it is not handed to the manager.
StartRecovery(reason, fr, s, ab, n) ==
  /\ pc' = "model"
  /\ inRecovery' = TRUE
  /\ originalReason' = reason
  /\ terminateReason' = reason
  /\ finalResult' = fr
  /\ sentMessage' = FinalWarningMessage(reason)
  /\ stack' = s
  /\ aborted' = Referenced(NewController(ab, n), s, n + 1)
  /\ nextCtrl' = n + 1
  /\ turnCtrl' = n + 1
  /\ graceAborted' = FALSE
  /\ UNCHANGED <<turnCounter, result, recoveryEvents>>

\* The turn limit checked with > instead of >=.
checkTermination_OffByOne(d, tc) ==
  IF d.maxTurns # 0 /\ tc > d.maxTurns THEN MAX_TURNS ELSE NULL

checkTermination(d, tc) == IF d.maxTurns # 0 /\ tc >= d.maxTurns THEN MAX_TURNS ELSE NULL

\* One iteration of run()'s while loop with currentMessage = msg, up to the
\* model call of executeTurn.
LoopTop(msg) ==
  LET c == nextCtrl + 1
      s1 == setCurrentTurnController(stack, c)
      ab1 == NewController(aborted, nextCtrl)
  IN IF checkTermination(def, turnCounter) # NULL
     THEN StartRecovery(checkTermination(def, turnCounter), finalResult, s1, ab1, c)
     ELSE /\ pc' = "model"
          /\ stack' = s1
          /\ aborted' = Referenced(ab1, s1, c)
          /\ nextCtrl' = c
          /\ turnCtrl' = c
          /\ turnCounter' = turnCounter + 1
          /\ sentMessage' = msg
          /\ UNCHANGED <<inRecovery, terminateReason, finalResult, result,
                         graceAborted, originalReason, recoveryEvents>>

\* finalResult after a failed recovery, by the original reason.
FailureResult(reason, fr) ==
  IF reason = TIMEOUT THEN "Agent timed out."
  ELSE IF reason = MAX_TURNS THEN "Agent reached max turns limit."
  ELSE IF fr # NULL THEN fr
  ELSE "Agent stopped calling tools but did not call complete_task."

\* run() attempting the recovery turn after every stop, whatever the reason.
AfterTurn_RecoversFromAnyStop(tr) ==
  IF ~inRecovery
  THEN IF tr.status = "stop"
       THEN LET fr == IF tr.fr # NULL THEN tr.fr ELSE finalResult
            IN IF tr.reason # GOAL
               THEN StartRecovery(tr.reason, fr, stack, aborted, nextCtrl)
               ELSE Return(tr.reason, fr) /\ UNCHANGED recoveryEvents
       ELSE LoopTop(tr.msg)
  ELSE IF tr.status = "stop" /\ tr.reason = GOAL
       THEN /\ Return(GOAL, IF tr.fr # NULL THEN tr.fr
                            ELSE "Task completed during grace period.")
            /\ recoveryEvents' = recoveryEvents \o RecoveryEnd(originalReason, TRUE)
       ELSE /\ Return(originalReason, FailureResult(originalReason, finalResult))
            /\ recoveryEvents' = recoveryEvents \o RecoveryEnd(originalReason, FALSE)

\* A failed recovery handing on the reason its own turn stopped with.
AfterTurn_ReturnsRecoveryTurnReason(tr) ==
  IF ~inRecovery
  THEN IF tr.status = "stop"
       THEN LET fr == IF tr.fr # NULL THEN tr.fr ELSE finalResult
            IN IF tr.reason \in Recoverable
               THEN StartRecovery(tr.reason, fr, stack, aborted, nextCtrl)
               ELSE Return(tr.reason, fr) /\ UNCHANGED recoveryEvents
       ELSE LoopTop(tr.msg)
  ELSE IF tr.status = "stop" /\ tr.reason = GOAL
       THEN /\ Return(GOAL, IF tr.fr # NULL THEN tr.fr
                            ELSE "Task completed during grace period.")
            /\ recoveryEvents' = recoveryEvents \o RecoveryEnd(originalReason, TRUE)
       ELSE /\ Return(IF tr.status = "stop" THEN tr.reason ELSE ERROR,
                      FailureResult(originalReason, finalResult))
            /\ recoveryEvents' = recoveryEvents \o RecoveryEnd(originalReason, FALSE)

\* What run() (or executeFinalWarningTurn and then run()) does with the result
\* of executeTurn, up to the next suspension point.
AfterTurn(tr) ==
  IF ~inRecovery
  THEN IF tr.status = "stop"
       THEN LET fr == IF tr.fr # NULL THEN tr.fr ELSE finalResult
            IN IF tr.reason \in Recoverable
               THEN StartRecovery(tr.reason, fr, stack, aborted, nextCtrl)
               ELSE Return(tr.reason, fr) /\ UNCHANGED recoveryEvents
       ELSE LoopTop(tr.msg)
  ELSE IF tr.status = "stop" /\ tr.reason = GOAL
       THEN /\ Return(GOAL, IF tr.fr # NULL THEN tr.fr
                            ELSE "Task completed during grace period.")
            /\ recoveryEvents' = recoveryEvents \o RecoveryEnd(originalReason, TRUE)
       ELSE /\ Return(originalReason, FailureResult(originalReason, finalResult))
            /\ recoveryEvents' = recoveryEvents \o RecoveryEnd(originalReason, FALSE)

\* The turn stays in progress: executeTurn is suspended at p.
Suspend(p) ==
  /\ pc' = p
  /\ sentMessage' = NoMessage
  /\ UNCHANGED <<mgrVars, inRecovery, turnCounter, terminateReason, finalResult,
                 result, turnCtrl, graceAborted, originalReason, recoveryEvents>>

Init ==
  /\ stack = <<>>
  /\ aborted = <<>>
  /\ nextCtrl = 0
  /\ pc = "idle"
  /\ inRecovery = FALSE
  /\ turnCounter = 0
  /\ terminateReason = ERROR
  /\ finalResult = NULL
  /\ result = NULL
  /\ turnCtrl = NoCtrl
  /\ sentMessage = NoMessage
  /\ graceAborted = FALSE
  /\ originalReason = NULL
  /\ recoveryEvents = <<>>
  /\ externalAborted = FALSE
  /\ chatSession = NewChat
  /\ fnIn = NULL
  /\ fnOut = NULL
  /\ calls = <<>>
  /\ toolState = <<>>
  /\ syncParts = <<>>
  /\ nextMessage = NoMessage
  /\ taskCompleted = FALSE
  /\ submittedOutput = NULL
  /\ completionOrder = <<>>
  /\ interruptHandled = FALSE
  /\ interruptUserInput = NULL
  /\ timeoutAborted = FALSE
  /\ def \in Definitions
  /\ opPc = "idle"
  /\ presses = 0
  /\ issued = NoneIssued

\* The main agent: startAgentSession() once, then a controller for its turn.
HostStart ==
  /\ pc = "idle"
  /\ stack = <<>>
  /\ stack' = setCurrentTurnController(startAgentSession(stack), nextCtrl + 1)
  /\ aborted' = NewController(aborted, nextCtrl)
  /\ nextCtrl' = nextCtrl + 1
  /\ UNCHANGED <<runVars, opVars>>

\* run() up to `await this.createChatObject(inputs)`.
RunStart ==
  /\ pc = "idle"
  /\ Len(stack) = 1
  /\ pc' = "creating"
  /\ stack' = startAgentSession(stack)
  /\ UNCHANGED <<aborted, nextCtrl, inRecovery, turnCounter, terminateReason,
                 finalResult, result, turnCtrl, sentMessage,
                 graceAborted, originalReason, recoveryEvents,
                 turnVars, uiVars, envVars, opVars>>

\* createChatObject returned: prepareToolsList, the query message, first loop iteration.
ChatCreated ==
  /\ pc = "creating"
  /\ LoopTop(QueryMessage)
  /\ UNCHANGED <<turnVars, uiVars, envVars, opVars>>

\* createChatObject threw (no systemPrompt and no initialMessages).
ChatCreateFails ==
  /\ pc = "creating"
  /\ Throw
  /\ UNCHANGED <<turnVars, uiVars, envVars, opVars>>

\* The soft-interrupt branch awaiting another answer whatever the operator says.
AfterInterruptInput_AwaitsAgain(v) == Suspend("waitInput")

\* The soft-interrupt branch dropping the operator's answer.
AfterInterruptInput_AlwaysAborts(v) == AfterTurn(StopResult(ABORTED, NULL))

\* executeTurn's soft-interrupt branch once the operator's answer v is known.
AfterInterruptInput(v) ==
  IF v = NULL
  THEN AfterTurn(StopResult(ABORTED, NULL))
  ELSE AfterTurn(ContinueResult(InterruptMessage(v)))

\* The turn in progress does not reach processFunctionCalls.
NoCallsProcessed ==
  /\ calls' = <<>>
  /\ toolState' = <<>>
  /\ syncParts' = <<>>
  /\ nextMessage' = NoMessage
  /\ taskCompleted' = FALSE
  /\ submittedOutput' = NULL
  /\ completionOrder' = <<>>

\* executeTurn's soft-interrupt branch leaving the stored text and the handled
\* mark in place after taking the text.
AfterModelAborted_KeepsStoredText ==
  IF isCurrentInterruptHard(stack)
  THEN /\ AfterTurn(StopResult(IF timeoutSignalAborted THEN TIMEOUT ELSE ABORTED, NULL))
       /\ UNCHANGED uiVars
  ELSE IF interruptHandled
       THEN /\ UNCHANGED uiVars
            /\ AfterInterruptInput(interruptUserInput)
       ELSE /\ Suspend("waitInput")
            /\ UNCHANGED uiVars

\* executeTurn after callModel returned with turnSignal.aborted set.
AfterModelAborted ==
  IF isCurrentInterruptHard(stack)
  THEN /\ AfterTurn(StopResult(IF timeoutSignalAborted THEN TIMEOUT ELSE ABORTED, NULL))
       /\ UNCHANGED uiVars
  ELSE IF interruptHandled
       THEN /\ interruptHandled' = FALSE
            /\ interruptUserInput' = NULL
            /\ AfterInterruptInput(interruptUserInput)
       ELSE /\ Suspend("waitInput")
            /\ UNCHANGED uiVars

\* executeTurn after callModel returned functionCalls cs, turnSignal not aborted.
AfterModel(cs) ==
  IF Len(cs) = 0
  THEN /\ AfterTurn(StopResult(ERROR_NO_COMPLETE_TASK_CALL, NULL))
       /\ NoCallsProcessed
       /\ UNCHANGED uiVars
  ELSE LET st == SyncPass(EmptyPass, cs, 1, def)
           ts == [i \in 1..Len(cs) |-> IF i \in st.scheduled THEN "running" ELSE "none"]
           nm == UserMessage(toolResponseParts(st.parts, cs, ts, st.completed))
       IN /\ calls' = cs
          /\ syncParts' = st.parts
          /\ taskCompleted' = st.completed
          /\ submittedOutput' = st.output
          /\ toolState' = ts
          /\ completionOrder' = <<>>
          /\ UNCHANGED uiVars
          /\ IF st.scheduled = {}
             THEN /\ nextMessage' = nm
                  /\ AfterTurn(ProcessedTurnResult(st.completed, st.output, nm))
             ELSE /\ Suspend("tools")
                  /\ nextMessage' = NoMessage

\* The model stream ended with the invocations cs (native function calls, or
\* calls parsed from the local model's text) and the turn was not cancelled.
ModelReturns(cs) ==
  /\ pc = "model"
  /\ ~turnSignalAborted
  /\ (def.isLocal /\ def.hasOutput) => Len(cs) > 0
  /\ AfterModel(cs)
  /\ UNCHANGED <<envVars, opVars>>

\* The model stream was left at `if (signal.aborted) break`, or ended, with the
\* turn cancelled: what it delivered is not looked at.
ModelReturnsAborted ==
  /\ pc = "model"
  /\ turnSignalAborted
  /\ AfterModelAborted
  /\ NoCallsProcessed
  /\ UNCHANGED <<envVars, opVars>>

\* Texts of the local model in which _parseOllamaToolCalls finds no invocation:
\* a bare word, the same word as a JSON string literal, and a text the output
\* schema rejects.
OllamaTexts == {"v1", "\"v1\"", "invalid"}

\* JSON.parse(textResponse): the value, or the SyntaxError it throws.
JsonParse(text) ==
  IF text = "\"v1\"" THEN [ok |-> TRUE, value |-> "v1"] ELSE [ok |-> FALSE, value |-> ""]

\* The fallback that hands on the text as it is, without trying JSON.parse.
completeTaskFallback_RawTextOnly(text, d) ==
  IF d.hasOutput
  THEN <<[name |-> TASK_COMPLETE_TOOL_NAME, arg |-> text]>>
  ELSE <<>>

\* callOllamaModel with no invocation parsed from the text: functionCalls as returned.
completeTaskFallback(text, d) ==
  IF d.hasOutput
  THEN <<[name |-> TASK_COMPLETE_TOOL_NAME,
          arg |-> IF JsonParse(text).ok THEN JsonParse(text).value ELSE text]>>
  ELSE <<>>

\* callOllamaModel: no invocation parsed and an output is specified, so one
\* complete_task carrying the text is made up.
ModelReturnsText(text) ==
  /\ pc = "model"
  /\ ~turnSignalAborted
  /\ def.isLocal /\ def.hasOutput
  /\ AfterModel(completeTaskFallback(text, def))
  /\ UNCHANGED <<envVars, opVars>>

\* callModel threw: an AbortError of the cancelled remote stream, or another error.
ModelThrows(kind) ==
  /\ pc = "model"
  /\ kind = "AbortError" => (turnSignalAborted /\ ~def.isLocal)
  /\ IF inRecovery
     THEN /\ Return(originalReason, FailureResult(originalReason, finalResult))
          /\ recoveryEvents' = recoveryEvents \o RecoveryEnd(originalReason, FALSE)
     ELSE IF kind = "AbortError" /\ timeoutAborted
          THEN StartRecovery(TIMEOUT, finalResult, stack, aborted, nextCtrl)
          ELSE Throw
  /\ NoCallsProcessed
  /\ UNCHANGED <<uiVars, envVars, opVars>>

\* One executeToolCall of the turn returned; the last one lets Promise.all,
\* processFunctionCalls and executeTurn finish.
ToolReturn(i, outcome) ==
  /\ pc = "tools"
  /\ i \in 1..Len(toolState)
  /\ toolState[i] = "running"
  /\ outcome = "cancelled" => turnSignalAborted
  /\ LET ts == [toolState EXCEPT ![i] = outcome]
         nm == UserMessage(toolResponseParts(syncParts, calls, ts, taskCompleted))
     IN /\ toolState' = ts
        /\ completionOrder' = Append(completionOrder, i)
        /\ IF \E j \in 1..Len(ts) : ts[j] = "running"
           THEN UNCHANGED <<mgrVars, ctlVars, nextMessage>>
           ELSE /\ nextMessage' = nm
                /\ AfterTurn(ProcessedTurnResult(taskCompleted, submittedOutput, nm))
  /\ UNCHANGED <<calls, syncParts, taskCompleted, submittedOutput,
                 uiVars, envVars, opVars>>

\* One execution promise of the turn rejected (summarize() threw after the
\* tool returned): Promise.all rejects at once, whatever else is still running.
\* In a regular turn run() re-throws the error; in the recovery turn
\* executeFinalWarningTurn catches it and the recovery has failed.
ToolThrows(i) ==
  /\ pc = "tools"
  /\ i \in 1..Len(toolState)
  /\ toolState[i] = "running"
  /\ toolState' = [toolState EXCEPT ![i] = "threw"]
  /\ completionOrder' = Append(completionOrder, i)
  /\ IF inRecovery
     THEN /\ Return(originalReason, FailureResult(originalReason, finalResult))
          /\ recoveryEvents' = recoveryEvents \o RecoveryEnd(originalReason, FALSE)
     ELSE Throw
  /\ UNCHANGED <<calls, syncParts, nextMessage, taskCompleted, submittedOutput,
                 uiVars, envVars, opVars>>

\* The host UI resolves the soft-interrupt promise with the operator text or nothing.
RendezvousResolve(v) ==
  /\ pc = "waitInput"
  /\ AfterInterruptInput(v)
  /\ UNCHANGED <<turnVars, uiVars, envVars, opVars>>

\* The host UI stores the operator text and marks the interrupt handled before
\* the executor has looked at the cancellation.
UIPreset(t) ==
  /\ pc \in {"model", "tools"}
  /\ Len(stack) > 0
  /\ getCurrentContext(stack).ctrl # NoCtrl
  /\ aborted[getCurrentContext(stack).ctrl] = SINGLE_INTERRUPT
  /\ ~interruptHandled
  /\ interruptHandled' = TRUE
  /\ interruptUserInput' = t
  /\ UNCHANGED <<mgrVars, ctlVars, turnVars, envVars, opVars>>

\* Operator-signal router, first half of a key press: setHardAbort(isHard).
OpSetHard(isHard) ==
  /\ Active
  /\ opPc = "idle"
  /\ presses < MaxPresses
  /\ stack' = setHardAbort(stack, isHard)
  /\ opPc' = "armed"
  /\ presses' = presses + 1
  /\ UNCHANGED <<aborted, nextCtrl, runVars, issued>>

\* Operator-signal router, second half of a key press: abortCurrent().
OpAbort ==
  /\ opPc = "armed"
  /\ aborted' = abortCurrent(stack, aborted)
  /\ opPc' = "idle"
  /\ UNCHANGED <<stack, nextCtrl, runVars, presses, issued>>

\* run(): the max_time_minutes timer fires.
WallTimeout ==
  /\ Active
  /\ ~timeoutAborted
  /\ timeoutAborted' = TRUE
  /\ UNCHANGED <<mgrVars, ctlVars, turnVars, uiVars, def, externalAborted,
                 chatSession, fnVars, opVars>>

\* executeFinalWarningTurn: the GRACE_PERIOD_MS timer fires.
GraceTimeout ==
  /\ InTurn
  /\ inRecovery
  /\ ~graceAborted
  /\ graceAborted' = TRUE
  /\ UNCHANGED <<mgrVars, pc, inRecovery, turnCounter, terminateReason,
                 finalResult, result, turnCtrl, sentMessage,
                 originalReason, recoveryEvents, turnVars, uiVars, envVars, opVars>>

Next ==
  \/ HostStart
  \/ RunStart
  \/ ChatCreated
  \/ ChatCreateFails
  \/ \E cs \in CallSeqs : ModelReturns(cs)
  \/ ModelReturnsAborted
  \/ \E t \in OllamaTexts : ModelReturnsText(t)
  \/ \E k \in {"AbortError", "Error"} : ModelThrows(k)
  \/ \E i \in 1..MaxCalls, o \in {"ok", "err", "cancelled"} : ToolReturn(i, o)
  \/ \E i \in 1..MaxCalls : ToolThrows(i)
  \/ \E v \in OperatorTexts \cup {NULL} : RendezvousResolve(v)
  \/ \E t \in OperatorTexts : UIPreset(t)
  \/ \E b \in BOOLEAN : OpSetHard(b)
  \/ OpAbort
  \/ WallTimeout
  \/ GraceTimeout

Spec == Init /\ [][Next]_vars

(***************************************************************************)
(* AgentExecutor.prepareToolsList applied to a definition on its own       *)
(***************************************************************************)
\* Entries of toolConfig.tools: a name, a tool instance carrying a schema, or a
\* raw FunctionDeclaration.
ToolRefNames == RegisteredTools \cup {"unknown_tool", TASK_COMPLETE_TOOL_NAME}
ToolRefs == [kind : {"name", "instance", "declaration"}, name : ToolRefNames]

OutputNames == {"report", "answer"}

\* The parts of an AgentDefinition prepareToolsList reads.
ToolDefinitions ==
  [hasToolConfig : BOOLEAN, tools : SeqsUpTo(ToolRefs, MaxToolRefs),
   hasOutputConfig : BOOLEAN, outputName : OutputNames]

NoParameters == [present |-> FALSE, properties |-> {}, required |-> <<>>]

\* The schema of a tool instance or a raw declaration of that name.
ToolSchema(name) ==
  [name |-> name,
   parameters |-> [present |-> TRUE, properties |-> {"path"}, required |-> <<>>]]

\* create(): the agent's own registry, filled from the definition's tool list.
agentToolRegistry(d) ==
  IF d.hasToolConfig
  THEN {d.tools[i].name : i \in {k \in 1..Len(d.tools) :
          \/ d.tools[k].kind = "name" /\ d.tools[k].name \in RegisteredTools
          \/ d.tools[k].kind = "instance"}}
  ELSE {}

\* ToolRegistry.getFunctionDeclarationsFiltered: the schemas of the registered
\* tools among the given names.
getFunctionDeclarationsFiltered(registry, names) ==
  LET IsRegistered(n) == n \in registry
      found == SelectSeq(names, IsRegistered)
  IN [i \in 1..Len(found) |-> ToolSchema(found[i])]

\* complete_task declared only when an output is specified.
prepareToolsList_InjectsOnlyWithOutput(d) ==
  LET IsByName(r) == r.kind = "name"
      IsDirect(r) == r.kind # "name"
      byName == SelectSeq(d.tools, IsByName)
      direct == SelectSeq(d.tools, IsDirect)
      toolsList ==
        IF d.hasToolConfig
        THEN [i \in 1..Len(direct) |-> ToolSchema(direct[i].name)]
             \o getFunctionDeclarationsFiltered(agentToolRegistry(d),
                  [i \in 1..Len(byName) |-> byName[i].name])
        ELSE <<>>
      completeTool ==
        [name |-> TASK_COMPLETE_TOOL_NAME,
         parameters |-> [present |-> TRUE, properties |-> {d.outputName},
                         required |-> <<d.outputName>>]]
  IN IF d.hasOutputConfig THEN Append(toolsList, completeTool) ELSE toolsList

prepareToolsList(d) ==
  LET IsByName(r) == r.kind = "name"
      IsDirect(r) == r.kind # "name"
      byName == SelectSeq(d.tools, IsByName)
      direct == SelectSeq(d.tools, IsDirect)
      toolsList ==
        IF d.hasToolConfig
        THEN [i \in 1..Len(direct) |-> ToolSchema(direct[i].name)]
             \o getFunctionDeclarationsFiltered(agentToolRegistry(d),
                  [i \in 1..Len(byName) |-> byName[i].name])
        ELSE <<>>
      completeTool ==
        [name |-> TASK_COMPLETE_TOOL_NAME,
         parameters |-> IF d.hasOutputConfig
                        THEN [present |-> TRUE, properties |-> {d.outputName},
                              required |-> <<d.outputName>>]
                        ELSE NoParameters]
  IN Append(toolsList, completeTool)

\* An executor constructed for a definition; run() not yet called.
ToolsInit ==
  /\ fnIn \in ToolDefinitions
  /\ fnOut = [returned |-> FALSE, toolsList |-> <<>>]
  /\ stack = <<>>
  /\ aborted = <<>>
  /\ nextCtrl = 0
  /\ pc = "idle"
  /\ inRecovery = FALSE
  /\ turnCounter = 0
  /\ terminateReason = ERROR
  /\ finalResult = NULL
  /\ result = NULL
  /\ turnCtrl = NoCtrl
  /\ sentMessage = NoMessage
  /\ graceAborted = FALSE
  /\ originalReason = NULL
  /\ recoveryEvents = <<>>
  /\ externalAborted = FALSE
  /\ chatSession = NewChat
  /\ calls = <<>>
  /\ toolState = <<>>
  /\ syncParts = <<>>
  /\ nextMessage = NoMessage
  /\ taskCompleted = FALSE
  /\ submittedOutput = NULL
  /\ completionOrder = <<>>
  /\ interruptHandled = FALSE
  /\ interruptUserInput = NULL
  /\ timeoutAborted = FALSE
  /\ def = [hasOutput |-> fnIn.hasOutputConfig, maxTurns |-> 1, isLocal |-> TRUE,
            tools |-> agentToolRegistry(fnIn)]
  /\ opPc = "idle"
  /\ presses = 0
  /\ issued = NoneIssued

\* `tools = this.prepareToolsList()`
PrepareToolsList ==
  /\ ~fnOut.returned
  /\ fnOut' = [returned |-> TRUE, toolsList |-> prepareToolsList(fnIn)]
  /\ UNCHANGED <<mgrVars, ctlVars, turnVars, uiVars, timeoutAborted, def,
                 externalAborted, chatSession, fnIn, opVars>>

ToolsNext == PrepareToolsList

SpecTools == ToolsInit /\ [][ToolsNext]_vars

(***************************************************************************)
(* processFunctionCalls: one execution promise on its own, from the return *)
(* of executeToolCall to the parts it hands to Promise.all                 *)
(***************************************************************************)
NoContent == "no llmContent"
ToolContents == {NoContent, "raw output", "long raw output"}
SummaryTexts == {"", "summary A", "summary B"}

\* What the execution promise works on: the run configuration's flag, the kind
\* of model configuration, the tool response (error set or not, llmContent of
\* its functionResponse) and the text the summarizer model would answer.
ExecutionInputs ==
  [summarizeToolOutput : BOOLEAN, isLocal : BOOLEAN, error : BOOLEAN,
   llmContent : ToolContents, summary : SummaryTexts]

\* SummarizationService.summarize: the summarizer model's text for a local
\* model configuration; it throws for any other configuration.
summarize(x) == IF x.isLocal THEN [threw |-> FALSE, text |-> x.summary]
                ELSE [threw |-> TRUE, text |-> ""]

\* The execution promise after executeToolCall returned.
executionPromise(x) ==
  IF x.summarizeToolOutput
  THEN LET r == summarize(x)
       IN [returned |-> TRUE, summarizeCalled |-> TRUE, threw |-> r.threw,
           llmContent |-> IF ~r.threw /\ r.text # "" /\ x.llmContent # NoContent
                          THEN r.text ELSE x.llmContent]
  ELSE [returned |-> TRUE, summarizeCalled |-> FALSE, threw |-> FALSE,
        llmContent |-> x.llmContent]

\* An executor whose turn has scheduled one execution.
ExecInit ==
  /\ fnIn \in ExecutionInputs
  /\ fnOut = [returned |-> FALSE, summarizeCalled |-> FALSE, threw |-> FALSE,
              llmContent |-> NoContent]
  /\ stack = <<>>
  /\ aborted = <<>>
  /\ nextCtrl = 0
  /\ pc = "idle"
  /\ inRecovery = FALSE
  /\ turnCounter = 0
  /\ terminateReason = ERROR
  /\ finalResult = NULL
  /\ result = NULL
  /\ turnCtrl = NoCtrl
  /\ sentMessage = NoMessage
  /\ graceAborted = FALSE
  /\ originalReason = NULL
  /\ recoveryEvents = <<>>
  /\ externalAborted = FALSE
  /\ chatSession = NewChat
  /\ calls = <<>>
  /\ toolState = <<>>
  /\ syncParts = <<>>
  /\ nextMessage = NoMessage
  /\ taskCompleted = FALSE
  /\ submittedOutput = NULL
  /\ completionOrder = <<>>
  /\ interruptHandled = FALSE
  /\ interruptUserInput = NULL
  /\ timeoutAborted = FALSE
  /\ def = [hasOutput |-> FALSE, maxTurns |-> 1, isLocal |-> fnIn.isLocal,
            tools |-> RegisteredTools]
  /\ opPc = "idle"
  /\ presses = 0
  /\ issued = NoneIssued

\* executeToolCall returned and the rest of the execution promise ran.
ExecutionSettles ==
  /\ ~fnOut.returned
  /\ fnOut' = executionPromise(fnIn)
  /\ UNCHANGED <<mgrVars, ctlVars, turnVars, uiVars, timeoutAborted, def,
                 externalAborted, chatSession, fnIn, opVars>>

ExecNext == ExecutionSettles

SpecExec == ExecInit /\ [][ExecNext]_vars

(***************************************************************************)
(* OllamaChat.sendMessageStream and the loop of callOllamaModel reading    *)
(* its stream, on their own                                                *)
(***************************************************************************)
\* Every variable of the run at its value before run() is called.
NotRunning ==
  /\ stack = <<>>
  /\ aborted = <<>>
  /\ nextCtrl = 0
  /\ pc = "idle"
  /\ inRecovery = FALSE
  /\ turnCounter = 0
  /\ terminateReason = ERROR
  /\ finalResult = NULL
  /\ result = NULL
  /\ turnCtrl = NoCtrl
  /\ sentMessage = NoMessage
  /\ graceAborted = FALSE
  /\ originalReason = NULL
  /\ recoveryEvents = <<>>
  /\ externalAborted = FALSE
  /\ calls = <<>>
  /\ toolState = <<>>
  /\ syncParts = <<>>
  /\ nextMessage = NoMessage
  /\ taskCompleted = FALSE
  /\ submittedOutput = NULL
  /\ completionOrder = <<>>
  /\ interruptHandled = FALSE
  /\ interruptUserInput = NULL
  /\ timeoutAborted = FALSE
  /\ opPc = "idle"
  /\ presses = 0
  /\ issued = NoneIssued

ChatInit ==
  /\ NotRunning
  /\ chatSession = NewChat
  /\ def \in {d \in Definitions : d.isLocal}
  /\ fnIn = NULL
  /\ fnOut = NULL

ChatUnchanged ==
  UNCHANGED <<mgrVars, ctlVars, turnVars, uiVars, timeoutAborted, def,
              externalAborted, fnVars, opVars>>

IsUserMessage(role) == role = "user"

\* sendMessageStream, called by callOllamaModel with the signal of its turn
\* (which the wall timer may have cancelled already): the user message is
\* pushed to the history and the generator is returned.
SendMessageStream(alreadyAborted) ==
  /\ chatSession.stream = "none"
  /\ Len(SelectSeq(chatSession.history, IsUserMessage)) < MaxSends
  /\ chatSession' = [history |-> Append(chatSession.history, "user"),
                     stream |-> "open", chunks |-> 0,
                     signalAborted |-> alreadyAborted]
  /\ ChatUnchanged

\* The signal of the turn is cancelled while the stream is open.
ChatSignalAborts ==
  /\ chatSession.stream = "open"
  /\ ~chatSession.signalAborted
  /\ chatSession' = [chatSession EXCEPT !.signalAborted = TRUE]
  /\ ChatUnchanged

\* The generator yields a chunk. callOllamaModel takes it, or, with the signal
\* cancelled, breaks out of its for-await loop: the generator is closed at its
\* yield and the statement after its loop is never reached.
StreamChunk ==
  /\ chatSession.stream = "open"
  /\ chatSession.chunks < MaxChunks
  /\ chatSession' = IF chatSession.signalAborted
                    THEN [chatSession EXCEPT !.stream = "none"]
                    ELSE [chatSession EXCEPT !.chunks = @ + 1]
  /\ ChatUnchanged

\* The Ollama stream is exhausted: the generator leaves its loop and pushes the
\* model message.
StreamEnds ==
  /\ chatSession.stream = "open"
  /\ chatSession.chunks > 0
  /\ chatSession' = [chatSession EXCEPT !.history = Append(@, "model"),
                                        !.stream = "none"]
  /\ ChatUnchanged

\* ollama.chat rejects or its stream fails: callModel throws and run() ends.
StreamThrows ==
  /\ chatSession.stream = "open"
  /\ chatSession' = [chatSession EXCEPT !.stream = "failed"]
  /\ ChatUnchanged

ChatNext ==
  \/ \E b \in BOOLEAN : SendMessageStream(b)
  \/ ChatSignalAborts
  \/ StreamChunk
  \/ StreamEnds
  \/ StreamThrows

SpecChat == ChatInit /\ [][ChatNext]_vars

(***************************************************************************)
(* AgentExecutor.buildSystemPrompt, called by createChatObject at the      *)
(* start of every run() of executors created for one AgentDefinition       *)
(***************************************************************************)
\* Prompt texts as token sequences: plain text, the ${tool_code} placeholder,
\* and the tool code put in its place (the names of the declarations it lists).
TextToken(t) == [kind |-> "text", text |-> t, names |-> <<>>]
ToolCodePlaceholder == [kind |-> "placeholder", text |-> "${tool_code}", names |-> <<>>]
ToolCodeToken(names) == [kind |-> "tool_code", text |-> "", names |-> names]

\* promptConfig.systemPrompt and promptConfig.reminder ('' when not given).
SystemPrompts ==
  {<<>>, <<TextToken("You are a helper.")>>,
   <<TextToken("You are a helper."), ToolCodePlaceholder>>}
Reminders ==
  {<<>>, <<TextToken("Remember the format.")>>,
   <<TextToken("Remember the format."), ToolCodePlaceholder>>}

\* The definitions explored: prompt configuration and what prepareToolsList reads.
PromptDefinitions ==
  [systemPrompt : SystemPrompts, reminder : Reminders,
   toolDefinition : {t \in ToolDefinitions : Len(t.tools) <= 1 /\ t.outputName = "report"}]

includesToolCode(template) ==
  \E i \in 1..Len(template) : template[i] = ToolCodePlaceholder

\* _prepareGemmaToolCode: the JSON text of the declarations.
prepareGemmaToolCode(tools) == ToolCodeToken([i \in 1..Len(tools) |-> tools[i].name])

\* templateString with tool_code as its only input.
templateString(template, toolCode) ==
  [i \in 1..Len(template) |->
     IF template[i] = ToolCodePlaceholder THEN toolCode ELSE template[i]]

\* buildSystemPrompt: the definition as it is when the function returns.
buildSystemPrompt(d) ==
  IF d.systemPrompt = <<>>
  THEN d
  ELSE IF d.reminder # <<>> /\ includesToolCode(d.reminder)
       THEN [d EXCEPT !.reminder =
               templateString(@, prepareGemmaToolCode(prepareToolsList(d.toolDefinition)))]
       ELSE d

\* The host has created the definition; no run yet.
PromptInit ==
  /\ NotRunning
  /\ chatSession = NewChat
  /\ fnIn \in PromptDefinitions
  /\ fnOut = [runs |-> 0, definition |-> fnIn]
  /\ def = [hasOutput |-> fnIn.toolDefinition.hasOutputConfig, maxTurns |-> 1,
            isLocal |-> TRUE, tools |-> agentToolRegistry(fnIn.toolDefinition)]

\* One run(): createChatObject calls buildSystemPrompt when a system prompt is given.
RunBuildsSystemPrompt ==
  /\ fnOut.runs < MaxRuns
  /\ fnOut' = [runs |-> fnOut.runs + 1, definition |-> buildSystemPrompt(fnOut.definition)]
  /\ UNCHANGED <<mgrVars, ctlVars, turnVars, uiVars, timeoutAborted, def,
                 externalAborted, chatSession, fnIn, opVars>>

PromptNext == RunBuildsSystemPrompt

SpecPrompt == PromptInit /\ [][PromptNext]_vars

(***************************************************************************)
(* AgentExecutor.create and validateTools applied to a definition          *)
(***************************************************************************)
\* validateTools: LS, READ_FILE, GREP, GLOB, READ_MANY_FILES, MEMORY, SHELL and
\* WEB_SEARCH tool names.
allowlist ==
  {"ls", "read_file", "grep", "glob", "read_many_files", "save_memory",
   "run_shell_command", "google_web_search"}

\* validateTools accepting whatever the registry holds.
validateTools_AcceptsAll(registry) == TRUE

\* validateTools: TRUE when it returns, FALSE when it throws.
validateTools(registry) == \A name \in registry : name \in allowlist

\* create(): an executor is returned (TRUE) or the call rejects (FALSE).
create(d) == ~d.hasToolConfig \/ validateTools(agentToolRegistry(d))

CreateInit ==
  /\ NotRunning
  /\ chatSession = NewChat
  /\ fnIn \in ToolDefinitions
  /\ fnOut = [returned |-> FALSE, ok |-> FALSE]
  /\ def = [hasOutput |-> fnIn.hasOutputConfig, maxTurns |-> 1, isLocal |-> TRUE,
            tools |-> agentToolRegistry(fnIn)]

\* The host calls AgentExecutor.create(definition, ...).
Create ==
  /\ ~fnOut.returned
  /\ fnOut' = [returned |-> TRUE, ok |-> create(fnIn)]
  /\ UNCHANGED <<mgrVars, ctlVars, turnVars, uiVars, timeoutAborted, def,
                 externalAborted, chatSession, fnIn, opVars>>

CreateNext == Create

SpecCreate == CreateInit /\ [][CreateNext]_vars

(***************************************************************************)
(* parseToolCalls and stripJsonMarkdown applied to the JSON text of one    *)
(* invocation. Texts are sequences of characters; a key with its quotes    *)
(* and colon, and a fence with its line break, are single elements.        *)
(***************************************************************************)
BoxBar == "U+2502"        \* the box-drawing vertical bar
Quote == "QUOTE"
NameKey == "KEY name"
ParametersKey == "COMMA KEY parameters"
ArgKey == "KEY p"
LineBreak == "LF"
FenceOpen == "FENCE json LF"
FenceClose == "LF FENCE"

\* Characters of names and argument values (none that JSON.stringify escapes).
Chars == {"x", BoxBar, "{", "}"}
Strings == SeqsUpTo(Chars, MaxStr)

\* JSON.stringify({name, parameters: {p: value}})
stringify(name, value) ==
  <<"{", NameKey, Quote>> \o name \o <<Quote, ParametersKey, "{", ArgKey, Quote>>
    \o value \o <<Quote, "}", "}">>

\* The same text wrapped in a ```json fence.
fence(text) == <<FenceOpen>> \o text \o <<FenceClose>>

IsKept(c) == c # BoxBar /\ c # LineBreak

indexOf(text, c) ==
  IF \E i \in 1..Len(text) : text[i] = c
  THEN CHOOSE i \in 1..Len(text) : text[i] = c /\ \A j \in 1..(i - 1) : text[j] # c
  ELSE 0

lastIndexOf(text, c) ==
  IF \E i \in 1..Len(text) : text[i] = c
  THEN CHOOSE i \in 1..Len(text) : text[i] = c /\ \A j \in (i + 1)..Len(text) : text[j] # c
  ELSE 0

\* stripJsonMarkdown that leaves the characters of the JSON text alone.
stripJsonMarkdown_KeepsCharacters(text) ==
  LET firstBrace == indexOf(text, "{")
      lastBrace == lastIndexOf(text, "}")
  IN IF firstBrace # 0 /\ lastBrace > firstBrace
     THEN SubSeq(text, firstBrace, lastBrace)
     ELSE text

\* stripJsonMarkdown: from the first { to the last }, box bars and line breaks removed.
stripJsonMarkdown(text) ==
  LET firstBrace == indexOf(text, "{")
      lastBrace == lastIndexOf(text, "}")
  IN IF firstBrace # 0 /\ lastBrace > firstBrace
     THEN SelectSeq(SubSeq(text, firstBrace, lastBrace), IsKept)
     ELSE text

\* JSON.parse on a text of the shape stringify produces: the name and the
\* value between their quotes, or a SyntaxError for any other text.
jsonParseCall(text) ==
  LET quotes == {i \in 1..Len(text) : text[i] = Quote}
      q(k) == CHOOSE i \in quotes : Cardinality({j \in quotes : j < i}) = k - 1
  IN IF Cardinality(quotes) # 4
     THEN [ok |-> FALSE, name |-> <<>>, value |-> <<>>]
     ELSE LET name == SubSeq(text, q(1) + 1, q(2) - 1)
              value == SubSeq(text, q(3) + 1, q(4) - 1)
          IN IF text = stringify(name, value)
             THEN [ok |-> TRUE, name |-> name, value |-> value]
             ELSE [ok |-> FALSE, name |-> <<>>, value |-> <<>>]

\* parseToolCalls: the invocations found in the text. A text that is not JSON
\* goes to the name(args) pattern, which needs parentheses and finds nothing here.
parseToolCalls(text) ==
  LET parsedJson == jsonParseCall(stripJsonMarkdown(text))
  IN IF parsedJson.ok
     THEN <<[name |-> parsedJson.name, args |-> parsedJson.value]>>
     ELSE <<>>

ParseInit ==
  /\ NotRunning
  /\ chatSession = NewChat
  /\ fnIn \in [name : Strings, value : Strings]
  /\ fnOut = [returned |-> FALSE, plain |-> <<>>, fenced |-> <<>>]
  /\ def = [hasOutput |-> FALSE, maxTurns |-> 1, isLocal |-> TRUE,
            tools |-> RegisteredTools]

\* The text of the invocation is parsed as it is and inside a fence.
ParseToolCalls ==
  /\ ~fnOut.returned
  /\ fnOut' = [returned |-> TRUE,
               plain |-> parseToolCalls(stringify(fnIn.name, fnIn.value)),
               fenced |-> parseToolCalls(fence(stringify(fnIn.name, fnIn.value)))]
  /\ UNCHANGED <<mgrVars, ctlVars, turnVars, uiVars, timeoutAborted, def,
                 externalAborted, chatSession, fnIn, opVars>>

ParseNext == ParseToolCalls

SpecParse == ParseInit /\ [][ParseNext]_vars

(***************************************************************************)
(* SubagentHistoryDisplay: the reducer that turns the event history of a   *)
(* sub-agent into the list of turns and items the UI renders. An item of   *)
(* the history is known by its position k: the text of a chunk and the     *)
(* identity of a tool_call item are that position.                         *)
(***************************************************************************)
\* The event types the history is drawn from (tool_summary, tool_summary_chunk
\* and dynamic_tool_call_chunk items touch neither toolCall nor toolResponse).
HistoryItems ==
  {[type |-> "error", name |-> ""],
   [type |-> "thought", name |-> ""],
   [type |-> "tool_call", name |-> "ls"],
   [type |-> "tool_call", name |-> "grep"],
   [type |-> "tool_response", name |-> "ls"],
   [type |-> "tool_output_chunk", name |-> ""]}

NoResponse == [present |-> FALSE, name |-> "", output |-> <<>>]

\* A SubagentTurn: {} with its optional thought, toolCall and toolResponse.
SubagentTurn(thought, toolCall, toolCallName, toolResponse) ==
  [type |-> "turn", thought |-> thought, toolCall |-> toolCall,
   toolCallName |-> toolCallName, toolResponse |-> toolResponse]

\* A history item kept as it is in the processed history.
PlainItem(item) ==
  [type |-> item.type, thought |-> FALSE, toolCall |-> 0,
   toolCallName |-> "", toolResponse |-> NoResponse]

isSubagentTurn(e) == e.type = "turn"

\* case 'tool_output_chunk' for the chunk at position k; the last element of
\* acc is a turn.
outputChunk(acc, k) ==
  LET lastTurn == acc[Len(acc)]
  IN IF lastTurn.toolCall # 0
     THEN IF lastTurn.toolResponse.present
          THEN [acc EXCEPT ![Len(acc)].toolResponse.output = Append(@, k)]
          ELSE [acc EXCEPT ![Len(acc)].toolResponse =
                  [present |-> TRUE, name |-> lastTurn.toolCallName, output |-> <<k>>]]
     ELSE Append(acc, SubagentTurn(FALSE, 0, "",
                   [present |-> TRUE, name |-> "", output |-> <<k>>]))

\* One call of the reducer's callback: acc after the item at position k.
processedHistory(acc, item, k) ==
  IF item.type \in {"start", "error", "interrupted", "user_message"}
  THEN IF acc # <<>> /\ acc[Len(acc)].type = "interrupted" /\ item.type = "interrupted"
       THEN [acc EXCEPT ![Len(acc)] = PlainItem(item)]
       ELSE Append(acc, PlainItem(item))
  ELSE LET acc1 == IF acc = <<>> \/ ~isSubagentTurn(acc[Len(acc)])
                   THEN Append(acc, SubagentTurn(FALSE, 0, "", NoResponse))
                   ELSE acc
           lastTurn == acc1[Len(acc1)]
       IN CASE item.type = "thought" ->
                 IF lastTurn.toolCall # 0 \/ lastTurn.toolResponse.present
                 THEN Append(acc1, SubagentTurn(TRUE, 0, "", NoResponse))
                 ELSE [acc1 EXCEPT ![Len(acc1)].thought = TRUE]
            [] item.type = "tool_call" ->
                 IF lastTurn.toolCall # 0
                 THEN Append(acc1, SubagentTurn(FALSE, k, item.name, NoResponse))
                 ELSE [acc1 EXCEPT ![Len(acc1)].toolCall = k,
                                   ![Len(acc1)].toolCallName = item.name]
            [] item.type = "tool_response" ->
                 IF lastTurn.toolResponse.present
                 THEN Append(acc1, SubagentTurn(FALSE, 0, "",
                               [present |-> TRUE, name |-> item.name, output |-> <<>>]))
                 ELSE [acc1 EXCEPT ![Len(acc1)].toolResponse =
                         [present |-> TRUE, name |-> item.name, output |-> <<>>]]
            [] item.type = "tool_output_chunk" -> outputChunk(acc1, k)
            [] OTHER -> acc1

\* The component is rendered with a history; nothing is reduced yet.
HistoryInit ==
  /\ NotRunning
  /\ chatSession = NewChat
  /\ fnIn \in SeqsUpTo(HistoryItems, MaxHistory)
  /\ fnOut = [pos |-> 0, acc |-> <<>>]
  /\ def = [hasOutput |-> FALSE, maxTurns |-> 1, isLocal |-> TRUE,
            tools |-> RegisteredTools]

\* history.reduce takes the next item.
ReduceItem ==
  /\ fnOut.pos < Len(fnIn)
  /\ fnOut' = [pos |-> fnOut.pos + 1,
               acc |-> processedHistory(fnOut.acc, fnIn[fnOut.pos + 1], fnOut.pos + 1)]
  /\ UNCHANGED <<mgrVars, ctlVars, turnVars, uiVars, timeoutAborted, def,
                 externalAborted, chatSession, fnIn, opVars>>

SpecHistory == HistoryInit /\ [][ReduceItem]_vars

(***************************************************************************)
(* The run with the operator-signal router as one key event: the handler   *)
(* calls setHardAbort() and then abortCurrent() without yielding, so no    *)
(* step of the executor falls between the two calls. The presses are       *)
(* recorded by the turn handle that was current when they were made.       *)
(***************************************************************************)
\* The number of the press within the current turn decides its hardness: the
\* first press of a turn is soft, a further one is hard.
KeyPress ==
  LET isHard == turnCtrl \in issued.hardOn \cup issued.softOn
      s1 == setHardAbort(stack, isHard)
  IN /\ Active
     /\ opPc = "idle"
     /\ presses < MaxPresses
     /\ stack' = s1
     /\ aborted' = abortCurrent(s1, aborted)
     /\ presses' = presses + 1
     /\ issued' = IF isHard
                  THEN [issued EXCEPT !.hardOn = @ \cup {turnCtrl}]
                  ELSE [issued EXCEPT !.softOn = @ \cup {turnCtrl}]
     /\ UNCHANGED <<nextCtrl, runVars, opPc>>

NextRace ==
  \/ HostStart
  \/ RunStart
  \/ ChatCreated
  \/ ChatCreateFails
  \/ \E cs \in CallSeqs : ModelReturns(cs)
  \/ ModelReturnsAborted
  \/ \E t \in OllamaTexts : ModelReturnsText(t)
  \/ \E k \in {"AbortError", "Error"} : ModelThrows(k)
  \/ \E i \in 1..MaxCalls, o \in {"ok", "err", "cancelled"} : ToolReturn(i, o)
  \/ \E i \in 1..MaxCalls : ToolThrows(i)
  \/ \E v \in OperatorTexts \cup {NULL} : RendezvousResolve(v)
  \/ \E t \in OperatorTexts : UIPreset(t)
  \/ KeyPress
  \/ WallTimeout
  \/ GraceTimeout

SpecRace == Init /\ [][NextRace]_vars

(***************************************************************************)
(* callModel consuming one response stream chunk by chunk while the signal *)
(* of the turn may be cancelled, and executeTurn taking its result         *)
(***************************************************************************)
\* A CHUNK event of the stream: whether it carries thought or text the executor
\* emits as a THOUGHT_CHUNK, and whether it carries an invocation.
StreamChunks == [thought : BOOLEAN, call : BOOLEAN]

\* callModel before the first chunk: nothing emitted, nothing collected.
StreamStart ==
  [phase |-> "streaming", pos |-> 0, signalAborted |-> FALSE, events |-> 0,
   functionCalls |-> 0, processed |-> 0, atAbort |-> [events |-> 0, processed |-> 0]]

\* The body of the for-await loop ignoring the signal.
consumeChunk_IgnoresSignal(st, chunk, isLocal) ==
  [st EXCEPT !.pos = @ + 1,
             !.processed = @ + 1,
             !.events = IF chunk.thought THEN @ + 1 ELSE @,
             !.functionCalls = IF isLocal
                               THEN (IF chunk.thought
                                     THEN (IF chunk.call THEN 1 ELSE 0) ELSE @)
                               ELSE (IF chunk.call THEN @ + 1 ELSE @)]

\* The body of the for-await loop of callGeminiModel / callOllamaModel for one
\* chunk: break when the signal is cancelled; otherwise emit the thought and
\* collect the invocations (the local path keeps the text of the last chunk
\* that had text, and parses the invocations from it after the loop).
consumeChunk(st, chunk, isLocal) ==
  IF st.signalAborted
  THEN [st EXCEPT !.phase = "returned"]
  ELSE [st EXCEPT !.pos = @ + 1,
                  !.processed = @ + 1,
                  !.events = IF chunk.thought THEN @ + 1 ELSE @,
                  !.functionCalls = IF isLocal
                                    THEN (IF chunk.thought
                                          THEN (IF chunk.call THEN 1 ELSE 0) ELSE @)
                                    ELSE (IF chunk.call THEN @ + 1 ELSE @)]

\* executeTurn after callModel: the cancelled turn stops before
\* processFunctionCalls; otherwise the invocations are dispatched.
afterCallModel(st) ==
  IF st.signalAborted THEN [st EXCEPT !.phase = "cancelled"]
  ELSE IF st.functionCalls = 0 THEN [st EXCEPT !.phase = "noCalls"]
  ELSE [st EXCEPT !.phase = "dispatched"]

StreamInit ==
  /\ NotRunning
  /\ chatSession = NewChat
  /\ fnIn \in [isLocal : BOOLEAN, chunks : SeqsUpTo(StreamChunks, MaxChunks)]
  /\ fnOut = StreamStart
  /\ def = [hasOutput |-> FALSE, maxTurns |-> 1, isLocal |-> fnIn.isLocal,
            tools |-> RegisteredTools]

StreamUnchanged ==
  UNCHANGED <<mgrVars, ctlVars, turnVars, uiVars, timeoutAborted, def,
              externalAborted, chatSession, fnIn, opVars>>

\* The cancellation of the turn fires while callModel is consuming the stream
\* or has just returned.
TurnSignalAborts ==
  /\ fnOut.phase \in {"streaming", "returned"}
  /\ ~fnOut.signalAborted
  /\ fnOut' = [fnOut EXCEPT !.signalAborted = TRUE,
                            !.atAbort = [events |-> fnOut.events,
                                         processed |-> fnOut.processed]]
  /\ StreamUnchanged

\* The stream delivers its next chunk to the for-await loop.
ConsumeChunk ==
  /\ fnOut.phase = "streaming"
  /\ fnOut.pos < Len(fnIn.chunks)
  /\ fnOut' = consumeChunk(fnOut, fnIn.chunks[fnOut.pos + 1], fnIn.isLocal)
  /\ StreamUnchanged

\* The stream is exhausted: callModel returns what it collected.
StreamExhausted ==
  /\ fnOut.phase = "streaming"
  /\ fnOut.pos = Len(fnIn.chunks)
  /\ fnOut' = [fnOut EXCEPT !.phase = "returned"]
  /\ StreamUnchanged

\* executeTurn continues after `await callModel`.
AfterCallModel ==
  /\ fnOut.phase = "returned"
  /\ fnOut' = afterCallModel(fnOut)
  /\ StreamUnchanged

StreamNext ==
  \/ TurnSignalAborts
  \/ ConsumeChunk
  \/ StreamExhausted
  \/ AfterCallModel

SpecStream == StreamInit /\ [][StreamNext]_vars

(***************************************************************************)
(* processFunctionCalls with the activity events it emits: the synchronous *)
(* loop over the invocations, then the tool executions settling one by one *)
(***************************************************************************)
\* What an invocation is: complete_task with an acceptable output, with an
\* output the schema rejects, or without the output argument; a call of a tool
\* the agent does not have; a call of one of its tools.
CallKinds == {"complete", "completeInvalid", "completeMissing", "unauthorized", "tool"}

\* The loop body skipping the error event of a duplicate complete_task.
syncOutcome_SilentDuplicate(kind, completed, hasOutput) ==
  IF kind \in {"complete", "completeInvalid", "completeMissing"}
  THEN IF completed
       THEN [terminal |-> "none", taskCompleted |-> TRUE, scheduled |-> FALSE]
       ELSE IF hasOutput /\ kind # "complete"
            THEN [terminal |-> "ERROR", taskCompleted |-> FALSE, scheduled |-> FALSE]
            ELSE [terminal |-> "TOOL_CALL_END", taskCompleted |-> TRUE, scheduled |-> FALSE]
  ELSE IF kind = "unauthorized"
       THEN [terminal |-> "ERROR", taskCompleted |-> completed, scheduled |-> FALSE]
       ELSE [terminal |-> "none", taskCompleted |-> completed, scheduled |-> TRUE]

\* One iteration of the loop after its TOOL_CALL_START: the event it emits
\* before `continue` (none for a scheduled tool), taskCompleted after it, and
\* whether an execution was scheduled.
syncOutcome(kind, completed, hasOutput) ==
  IF kind \in {"complete", "completeInvalid", "completeMissing"}
  THEN IF completed
       THEN [terminal |-> "ERROR", taskCompleted |-> TRUE, scheduled |-> FALSE]
       ELSE IF hasOutput /\ kind # "complete"
            THEN [terminal |-> "ERROR", taskCompleted |-> FALSE, scheduled |-> FALSE]
            ELSE [terminal |-> "TOOL_CALL_END", taskCompleted |-> TRUE, scheduled |-> FALSE]
  ELSE IF kind = "unauthorized"
       THEN [terminal |-> "ERROR", taskCompleted |-> completed, scheduled |-> FALSE]
       ELSE [terminal |-> "none", taskCompleted |-> completed, scheduled |-> TRUE]

Activity(type, i) == [type |-> type, idx |-> i]

\* The loop from invocation i on, st holding the events so far, taskCompleted
\* and the state of each invocation.
RECURSIVE syncLoop(_, _, _, _)
syncLoop(st, cs, i, hasOutput) ==
  IF i > Len(cs) THEN st
  ELSE LET o == syncOutcome(cs[i], st.taskCompleted, hasOutput)
           started == Append(st.events, Activity("TOOL_CALL_START", i))
       IN syncLoop([events |-> IF o.terminal = "none" THEN started
                                ELSE Append(started, Activity(o.terminal, i)),
                    taskCompleted |-> o.taskCompleted,
                    state |-> Append(st.state, IF o.scheduled THEN "running" ELSE "done"),
                    phase |-> "awaiting"],
                   cs, i + 1, hasOutput)

CallsInit ==
  /\ NotRunning
  /\ chatSession = NewChat
  /\ fnIn \in [hasOutput : BOOLEAN, summarizeToolOutput : BOOLEAN,
               calls : SeqsUpTo(CallKinds, MaxCalls) \ {<<>>}]
  /\ fnOut = [events |-> <<>>, taskCompleted |-> FALSE, state |-> <<>>, phase |-> "called"]
  /\ def = [hasOutput |-> fnIn.hasOutput, maxTurns |-> 1, isLocal |-> FALSE,
            tools |-> RegisteredTools]

CallsUnchanged ==
  UNCHANGED <<mgrVars, ctlVars, turnVars, uiVars, timeoutAborted, def,
              externalAborted, chatSession, fnIn, opVars>>

\* processFunctionCalls up to `await Promise.all`.
ProcessFunctionCalls ==
  /\ fnOut.phase = "called"
  /\ fnOut' = syncLoop(fnOut, fnIn.calls, 1, fnIn.hasOutput)
  /\ CallsUnchanged

\* executeToolCall of invocation i returned, with or without an error; with
\* summarizeToolOutput the summarization then returns or throws. An execution
\* still pending when Promise.all rejected goes on and settles later.
ExecutionSettled(i, failed, summaryThrows) ==
  /\ fnOut.phase \in {"awaiting", "thrown"}
  /\ i \in 1..Len(fnOut.state)
  /\ fnOut.state[i] = "running"
  /\ summaryThrows => fnIn.summarizeToolOutput
  /\ fnOut' = [fnOut EXCEPT
       !.events = Append(@, Activity(IF failed THEN "ERROR" ELSE "TOOL_CALL_END", i)),
       !.state[i] = IF summaryThrows THEN "threw" ELSE "done"]
  /\ CallsUnchanged

\* Promise.all settled: processFunctionCalls returns, or throws when an
\* execution promise rejected.
ProcessFunctionCallsEnds ==
  /\ fnOut.phase = "awaiting"
  /\ \/ \A i \in 1..Len(fnOut.state) : fnOut.state[i] = "done"
     \/ \E i \in 1..Len(fnOut.state) : fnOut.state[i] = "threw"
  /\ fnOut' = [fnOut EXCEPT !.phase =
       IF \E i \in 1..Len(fnOut.state) : fnOut.state[i] = "threw"
       THEN "thrown" ELSE "returned"]
  /\ CallsUnchanged

CallsNext ==
  \/ ProcessFunctionCalls
  \/ \E i \in 1..MaxCalls, failed \in BOOLEAN, summaryThrows \in BOOLEAN :
       ExecutionSettled(i, failed, summaryThrows)
  \/ ProcessFunctionCallsEnds

SpecCalls == CallsInit /\ [][CallsNext]_vars

(***************************************************************************)
(* Sub-agent runs that overlap in time: the parent's turn dispatches sub-   *)
(* agents as concurrent tool invocations, each run() pushes a frame, then  *)
(* yields at every await, so the steps of the runs interleave. `owners`    *)
(* records, frame by frame, which run pushed it (0 for the parent).        *)
(***************************************************************************)
\* No sub-agent run has started; the parent has not started its turn.
NoRuns ==
  [owners |-> <<>>,
   runs |-> [r \in 1..MaxRuns |-> [pc |-> "idle", ctrl |-> NoCtrl, turns |-> 0]]]

OverlapInit ==
  /\ NotRunning
  /\ chatSession = NewChat
  /\ fnIn \in 1..MaxRuns
  /\ fnOut = NoRuns
  /\ def = [hasOutput |-> FALSE, maxTurns |-> MaxTurnsBound, isLocal |-> FALSE,
            tools |-> RegisteredTools]

OverlapUnchanged ==
  UNCHANGED <<ctlVars, turnVars, uiVars, timeoutAborted, def, externalAborted,
              chatSession, fnIn, opVars>>

\* The parent's run(): startAgentSession() and the handle of the turn in which
\* it dispatches the sub-agents.
ParentTurnStarts ==
  /\ fnOut.owners = <<>>
  /\ stack = <<>>
  /\ stack' = setCurrentTurnController(startAgentSession(stack), nextCtrl + 1)
  /\ aborted' = NewController(aborted, nextCtrl)
  /\ nextCtrl' = nextCtrl + 1
  /\ fnOut' = [fnOut EXCEPT !.owners = <<0>>]
  /\ OverlapUnchanged

\* run() of sub-agent r up to `await this.createChatObject(inputs)`.
SubRunStarts(r) ==
  /\ r \in 1..fnIn
  /\ fnOut.owners # <<>>
  /\ fnOut.runs[r].pc = "idle"
  /\ stack' = startAgentSession(stack)
  /\ fnOut' = [fnOut EXCEPT !.owners = Append(@, r), !.runs[r].pc = "creating"]
  /\ UNCHANGED <<aborted, nextCtrl>>
  /\ OverlapUnchanged

\* run() of sub-agent r at the head of its loop: a new AbortController handed
\* to setCurrentTurnController.
SubTurnStarts(r) ==
  /\ r \in 1..fnIn
  /\ fnOut.runs[r].pc \in {"creating", "turn"}
  /\ fnOut.runs[r].turns < def.maxTurns
  /\ stack' = setCurrentTurnController(stack, nextCtrl + 1)
  /\ aborted' = NewController(aborted, nextCtrl)
  /\ nextCtrl' = nextCtrl + 1
  /\ fnOut' = [fnOut EXCEPT !.runs[r] = [pc |-> "turn", ctrl |-> nextCtrl + 1,
                                          turns |-> @.turns + 1]]
  /\ OverlapUnchanged

\* run() of sub-agent r returns or throws: its finally block calls endAgentSession().
SubRunEnds(r) ==
  /\ r \in 1..fnIn
  /\ fnOut.runs[r].pc \in {"creating", "turn"}
  /\ stack' = endAgentSession(stack)
  /\ fnOut' = [fnOut EXCEPT
       !.owners = IF Len(@) = 0 THEN @ ELSE SubSeq(@, 1, Len(@) - 1),
       !.runs[r].pc = "ended"]
  /\ UNCHANGED <<aborted, nextCtrl>>
  /\ OverlapUnchanged

\* The operator's key: abortCurrent().
OverlapAbortCurrent ==
  /\ fnOut.owners # <<>>
  /\ aborted' = abortCurrent(stack, aborted)
  /\ UNCHANGED <<stack, nextCtrl, fnOut>>
  /\ OverlapUnchanged

OverlapNext ==
  \/ ParentTurnStarts
  \/ \E r \in 1..MaxRuns : SubRunStarts(r)
  \/ \E r \in 1..MaxRuns : SubTurnStarts(r)
  \/ \E r \in 1..MaxRuns : SubRunEnds(r)
  \/ OverlapAbortCurrent

SpecOverlap == OverlapInit /\ [][OverlapNext]_vars

(***************************************************************************)
(* run() under the scheduling its environment supplies: every promise the   *)
(* executor awaits is settled (chat creation, tool executions, the soft-    *)
(* interrupt rendezvous), a model stream whose signal is aborted is left at *)
(* its next chunk, and the timers set with setTimeout fire. A stream that   *)
(* is not cancelled may go on for ever.                                     *)
(***************************************************************************)
ExecutorProgress ==
  \/ ChatCreated
  \/ ChatCreateFails
  \/ ModelReturnsAborted
  \/ \E i \in 1..MaxCalls, o \in {"ok", "err", "cancelled"} : ToolReturn(i, o)
  \/ \E i \in 1..MaxCalls : ToolThrows(i)
  \/ \E v \in OperatorTexts \cup {NULL} : RendezvousResolve(v)

TimerFires == WallTimeout \/ GraceTimeout

SpecFair == Init /\ [][Next]_vars /\ WF_vars(ExecutorProgress) /\ WF_vars(TimerFires)

(***************************************************************************)
(* AgentExecutor.tryCompressChat at the head of every executeTurn of a     *)
(* remote chat. The compression service is opaque: any status, with or     *)
(* without a new history. fnOut keeps the latch (hasFailedCompressionAttempt)*)
(* and, as history variables, the last result and the state before it.     *)
(***************************************************************************)
COMPRESSED == "COMPRESSED"
COMPRESSION_FAILED_INFLATED_TOKEN_COUNT == "COMPRESSION_FAILED_INFLATED_TOKEN_COUNT"
CompressionStatuses == {COMPRESSED, COMPRESSION_FAILED_INFLATED_TOKEN_COUNT, "NONE"}

\* What compress() resolves with: info.compressionStatus and newHistory
\* (absent, or a history that may be empty).
CompressionResults ==
  [status : CompressionStatuses, hasNew : BOOLEAN,
   newHistory : {<<>>, <<"summary">>}]

\* tryCompressChat that clears the latch on every COMPRESSED result.
tryCompressChat_ClearsWithoutHistory(history, latch, res) ==
  IF res.status = COMPRESSION_FAILED_INFLATED_TOKEN_COUNT
  THEN [history |-> history, latch |-> TRUE]
  ELSE IF res.status = COMPRESSED
       THEN [history |-> IF res.hasNew THEN res.newHistory ELSE history,
             latch |-> FALSE]
       ELSE [history |-> history, latch |-> latch]

\* tryCompressChat: the chat history and the latch after the result res.
tryCompressChat(history, latch, res) ==
  IF res.status = COMPRESSION_FAILED_INFLATED_TOKEN_COUNT
  THEN [history |-> history, latch |-> TRUE]
  ELSE IF res.status = COMPRESSED
       THEN IF res.hasNew
            THEN [history |-> res.newHistory, latch |-> FALSE]
            ELSE [history |-> history, latch |-> latch]
       ELSE [history |-> history, latch |-> latch]

\* A new executor: `private hasFailedCompressionAttempt = false`, no turn yet.
NoCompression ==
  [phase |-> "turnStart", latch |-> FALSE, turns |-> 0, compressions |-> 0,
   last |-> [status |-> "NONE", hasNew |-> FALSE, newHistory |-> <<>>],
   before |-> [history |-> <<>>, latch |-> FALSE],
   inflated |-> FALSE]

CompressInit ==
  /\ NotRunning
  /\ chatSession = NewChat
  /\ def \in Definitions
  /\ fnIn = NULL
  /\ fnOut = NoCompression

CompressUnchanged ==
  UNCHANGED <<mgrVars, ctlVars, turnVars, uiVars, timeoutAborted, def,
              externalAborted, fnIn, opVars>>

\* executeTurn up to callModel: tryCompressChat for a GeminiChat, nothing for
\* the chat of a local model.
TurnCompresses(res) ==
  /\ fnOut.phase = "turnStart"
  /\ fnOut.turns < MaxHistory
  /\ IF def.isLocal
     THEN /\ res = NoCompression.last
          /\ fnOut' = [fnOut EXCEPT !.phase = "callModel", !.turns = @ + 1]
          /\ UNCHANGED chatSession
     ELSE LET r == tryCompressChat(chatSession.history, fnOut.latch, res)
          IN /\ chatSession' = [chatSession EXCEPT !.history = r.history]
             /\ fnOut' = [fnOut EXCEPT
                  !.phase = "callModel", !.turns = @ + 1, !.compressions = @ + 1,
                  !.latch = r.latch, !.last = res,
                  !.before = [history |-> chatSession.history, latch |-> fnOut.latch],
                  !.inflated =
                    IF res.status = COMPRESSION_FAILED_INFLATED_TOKEN_COUNT THEN TRUE
                    ELSE IF res.status = COMPRESSED /\ res.hasNew THEN FALSE
                    ELSE @]
  /\ CompressUnchanged

\* The rest of the turn: the message sent and the model's answer join the history.
TurnCallsModel ==
  /\ fnOut.phase = "callModel"
  /\ chatSession' = [chatSession EXCEPT !.history =
       IF Len(@) + 2 <= MaxHistory THEN @ \o <<"user", "model">> ELSE @]
  /\ fnOut' = [fnOut EXCEPT !.phase = "turnStart"]
  /\ CompressUnchanged

CompressNext ==
  \/ \E res \in CompressionResults : TurnCompresses(res)
  \/ TurnCallsModel

SpecCompress == CompressInit /\ [][CompressNext]_vars

(***************************************************************************)
(* run() with its `signal` parameter: the caller's AbortSignal may be      *)
(* cancelled before run() is called or at any time while it runs           *)
(***************************************************************************)
\* The caller cancels the AbortSignal it passed (or is about to pass) to run().
ExternalAbort ==
  /\ pc = "idle" \/ Active
  /\ ~externalAborted
  /\ externalAborted' = TRUE
  /\ UNCHANGED <<mgrVars, ctlVars, turnVars, uiVars, timeoutAborted, def,
                 chatSession, fnVars, opVars>>

\* Runs of a local-model definition with an output specification.
InitExt == Init /\ def.isLocal /\ def.hasOutput

NextExt == Next \/ ExternalAbort

SpecExt == InitExt /\ [][NextExt]_vars

(***************************************************************************)
(* The AbortSignalManager on its own: its methods called in any order by   *)
(* any callers (the operator router, nested and overlapping executors).    *)
(* Every controller ever created is kept, so a late abort of one is seen.  *)
(***************************************************************************)
MgrInit ==
  /\ Init
  /\ def = [hasOutput |-> FALSE, maxTurns |-> 1, isLocal |-> FALSE,
            tools |-> RegisteredTools]

MgrStartAgentSession ==
  /\ Len(stack) < MaxDepth
  /\ stack' = startAgentSession(stack)
  /\ UNCHANGED <<aborted, nextCtrl, runVars, opVars>>

MgrEndAgentSession ==
  /\ stack' = endAgentSession(stack)
  /\ UNCHANGED <<aborted, nextCtrl, runVars, opVars>>

\* A caller makes a new AbortController and hands it to the manager.
MgrSetCurrentTurnController ==
  /\ nextCtrl < MaxCtrl
  /\ stack' = setCurrentTurnController(stack, nextCtrl + 1)
  /\ aborted' = NewController(aborted, nextCtrl)
  /\ nextCtrl' = nextCtrl + 1
  /\ UNCHANGED <<runVars, opVars>>

MgrSetHardAbort(isHard) ==
  /\ stack' = setHardAbort(stack, isHard)
  /\ UNCHANGED <<aborted, nextCtrl, runVars, opVars>>

MgrAbortCurrent ==
  /\ aborted' = abortCurrent(stack, aborted)
  /\ UNCHANGED <<stack, nextCtrl, runVars, opVars>>

MgrNext ==
  \/ MgrStartAgentSession
  \/ MgrEndAgentSession
  \/ MgrSetCurrentTurnController
  \/ \E b \in BOOLEAN : MgrSetHardAbort(b)
  \/ MgrAbortCurrent

SpecMgr == MgrInit /\ [][MgrNext]_vars

(***************************************************************************)
(* Properties                                                              *)
(***************************************************************************)

\* processFunctionCalls has returned nextMessage for the invocations `calls`.
Processed == Len(calls) > 0 /\ nextMessage # NoMessage

Parts == nextMessage.parts

\* The positions of nextMessage that answer invocation i.
PartsFor(i) ==
  {k \in 1..Len(Parts) : Parts[k].kind = "functionResponse" /\ Parts[k].idx = i}

IsCompleteTask(i) == calls[i].name = TASK_COMPLETE_TOOL_NAME

IsUnauthorized(i) == calls[i].name \notin def.tools \cup {TASK_COMPLETE_TOOL_NAME}

\* Invocation i is a complete_task that can be accepted: no output is
\* specified, or its output passes the schema.
Acceptable(i) == IsCompleteTask(i) /\ (~def.hasOutput \/ calls[i].arg \in ValidOutputs)

\* Invocation i is a complete_task whose output is missing or fails the schema.
FailedCompleteTask(i) ==
  IsCompleteTask(i) /\ def.hasOutput /\ calls[i].arg \notin ValidOutputs

SomeAcceptable == \E i \in 1..Len(calls) : Acceptable(i)

\* A step that ends the turn in progress: run() goes on to another turn, to
\* the recovery turn, or returns.
TurnEnds == turnCtrl' # turnCtrl

\* C1: whenever processFunctionCalls has returned, nextMessage holds exactly
\* one tool-response part per invocation and the k-th part answers the k-th
\* invocation, whatever the order in which the executions returned.
C1_ResponsesInInvocationOrder ==
  Processed =>
    /\ Len(Parts) = Len(calls)
    /\ \A k \in 1..Len(Parts) :
         /\ Parts[k].kind = "functionResponse"
         /\ Parts[k].idx = k
         /\ Parts[k].name = calls[k].name

\* C2: run() has returned GOAL only if the turn it returned from (a regular
\* turn or the recovery turn) processed a complete_task that can be accepted.
C2_GoalOnlyByAcceptedCompleteTask ==
  (pc = "done" /\ terminateReason = GOAL) => (Processed /\ SomeAcceptable)

\* run() returned GOAL from the recovery turn.
C2_Witness ==
  /\ pc = "done"
  /\ terminateReason = GOAL
  /\ inRecovery
  /\ SomeAcceptable

\* C3: an invocation of a name outside the filtered registry (and not
\* complete_task) is never handed to tool execution and gets exactly one
\* response part, which carries the 'Unauthorized tool call' error.
C3_UnauthorizedRejectedNotExecuted ==
  \A i \in 1..Len(calls) :
    IsUnauthorized(i) =>
      /\ toolState[i] = "none"
      /\ Cardinality({k \in 1..Len(syncParts) : syncParts[k].idx = i}) = 1
      /\ \A k \in 1..Len(syncParts) :
           syncParts[k].idx = i =>
             syncParts[k] = ResponsePart(i, calls[i].name, "unauthorized")
      /\ Processed =>
           /\ Cardinality(PartsFor(i)) = 1
           /\ \A k \in PartsFor(i) : Parts[k].resp = "unauthorized"

\* An unauthorized invocation was rejected in a turn in which a registered
\* tool was executed.
C3_Witness ==
  /\ Processed
  /\ \E i \in 1..Len(calls) : IsUnauthorized(i)
  /\ \E j \in 1..Len(calls) : toolState[j] = "ok"

\* C4: in a turn with an acceptable complete_task, the first acceptable one
\* decides: the task is completed with its output, exactly one completion
\* response is recorded, and every later complete_task gets the 'already
\* marked complete' error.
C4_FirstAcceptedCompletionWins ==
  (Len(calls) > 0 /\ SomeAcceptable) =>
    LET f == CHOOSE i \in 1..Len(calls) :
               Acceptable(i) /\ \A j \in 1..(i - 1) : ~Acceptable(j)
    IN /\ taskCompleted
       /\ submittedOutput =
            (IF def.hasOutput THEN calls[f].arg ELSE "Task completed successfully.")
       /\ Cardinality({k \in 1..Len(syncParts) :
                         syncParts[k].resp \in {"submitted", "marked"}}) = 1
       /\ \A j \in (f + 1)..Len(calls) :
            IsCompleteTask(j) =>
              \E k \in 1..Len(syncParts) :
                syncParts[k] = ResponsePart(j, calls[j].name, "duplicate")

\* Two complete_task invocations with different valid outputs in one turn,
\* and run() returned the first one's output.
C4_Witness ==
  /\ def.hasOutput
  /\ Len(calls) = 2
  /\ IsCompleteTask(1) /\ calls[1].arg = "v1"
  /\ IsCompleteTask(2) /\ calls[2].arg = "v2"
  /\ pc = "done"
  /\ result = "v1"

\* A failed complete_task is answered by an error response.
FailedCompleteTaskAnswered ==
  (def.hasOutput /\ Processed) =>
    \A i \in 1..Len(calls) :
      FailedCompleteTask(i) =>
        /\ Cardinality(PartsFor(i)) = 1
        /\ \A k \in PartsFor(i) :
             Parts[k].resp \in {IF calls[i].arg = "missing" THEN "missing" ELSE "invalid",
                                "duplicate"}

\* The turn processed a failed complete_task and no acceptable one.
C5_Case ==
  /\ def.hasOutput
  /\ Processed
  /\ \E i \in 1..Len(calls) : FailedCompleteTask(i)
  /\ ~SomeAcceptable

\* C5 as stated: a failed complete_task is answered by an error response, and
\* when no complete_task of the turn can be accepted the task is not completed
\* and the loop continues: the next regular model call is under way with the
\* turn's nextMessage (which holds the error response).
C5_FailedCompletionContinuesLoop ==
  /\ FailedCompleteTaskAnswered
  /\ C5_Case =>
       /\ ~taskCompleted
       /\ pc = "model" /\ ~inRecovery /\ sentMessage = nextMessage

\* C5 amended: as above, but the loop continues only below the turn limit; at
\* the limit the recovery turn is started with the final warning instead, and
\* when the turn was the recovery turn run() returns the original reason.
C5_FailedCompletionYieldsContinue ==
  /\ FailedCompleteTaskAnswered
  /\ C5_Case =>
       /\ ~taskCompleted
       /\ \/ /\ pc = "model" /\ ~inRecovery
             /\ sentMessage = nextMessage
             /\ turnCounter <= def.maxTurns
          \/ /\ pc = "model" /\ inRecovery
             /\ turnCounter >= def.maxTurns
             /\ originalReason = MAX_TURNS
             /\ sentMessage = FinalWarningMessage(MAX_TURNS)
          \/ /\ pc = "done" /\ inRecovery
             /\ terminateReason = originalReason
             /\ terminateReason \in Recoverable

\* After a turn whose only complete_task failed validation, the next regular
\* model call is under way with the validation error as its message.
C5_Witness ==
  /\ C5_Case
  /\ pc = "model" /\ ~inRecovery
  /\ sentMessage = nextMessage
  /\ \E k \in 1..Len(Parts) : Parts[k].resp = "invalid"

\* The operator's hard interrupt has cancelled the regular turn in progress:
\* a key press handled with setHardAbort(true) and abortCurrent() is complete,
\* the turn's handle is cancelled and the frame is marked hard.
HardInterrupted ==
  /\ ~inRecovery
  /\ opPc = "idle"
  /\ aborted[turnCtrl] \in {SINGLE_INTERRUPT, DOUBLE_INTERRUPT}
  /\ isCurrentInterruptHard(stack)

\* The operator's soft interrupt has cancelled the regular turn in progress.
SoftInterrupted ==
  /\ ~inRecovery
  /\ opPc = "idle"
  /\ aborted[turnCtrl] = SINGLE_INTERRUPT
  /\ ~isCurrentInterruptHard(stack)

\* C6: when a turn that the operator's hard interrupt cancelled, during the
\* model stream or during tool execution, comes to its end, run() returns
\* ABORTED: no further model call, regular or recovery, is made.
C6_HardInterruptReturnsAborted ==
  [][(pc \in {"model", "tools"} /\ HardInterrupted /\ TurnEnds)
       => (pc' = "done" /\ terminateReason' = ABORTED)]_vars

\* The executor takes the operator's answer t to a soft interrupt of a regular
\* turn: from the rendezvous, or from what the UI stored beforehand.
TakesOperatorText(t) ==
  /\ pc \in {"model", "waitInput"}
  /\ ~inRecovery
  /\ aborted[turnCtrl] = SINGLE_INTERRUPT
  /\ \/ RendezvousResolve(t)
     \/ /\ ModelReturnsAborted
        /\ ~isCurrentInterruptHard(stack)
        /\ interruptHandled
        /\ interruptUserInput = t

\* C7 as stated: once the operator's text is taken, the next message sent to
\* the model is a user message whose only part is that text.
C7_OperatorTextIsNextMessage ==
  [][\A t \in OperatorTexts :
       TakesOperatorText(t) =>
         (pc' = "model" /\ ~inRecovery' /\ sentMessage' = InterruptMessage(t))]_vars

\* C7 amended: below the turn limit the next message sent to the model is the
\* operator's text alone; at the turn limit the recovery turn starts and the
\* next message is the final warning.
C7_OperatorTextIsNextRegularMessage ==
  [][\A t \in OperatorTexts :
       TakesOperatorText(t) =>
         /\ pc' = "model"
         /\ IF turnCounter < def.maxTurns
            THEN ~inRecovery' /\ sentMessage' = InterruptMessage(t)
            ELSE inRecovery' /\ sentMessage' = FinalWarningMessage(MAX_TURNS)]_vars

\* A regular model call is under way with the operator's text as its message.
C7_Witness ==
  /\ pc = "model"
  /\ ~inRecovery
  /\ turnCounter = 2
  /\ sentMessage = InterruptMessage("stop and summarise")

\* C8: when a turn that a soft interrupt cancelled during tool execution ends
\* with a cancelled tool and a regular model call follows, the message of that
\* call is the operator's text alone.
C8_SoftInterruptDuringToolsSendsOperatorText ==
  [][(/\ pc = "tools"
      /\ SoftInterrupted
      /\ TurnEnds
      /\ \E i \in 1..Len(toolState) : toolState'[i] = "cancelled"
      /\ pc' = "model" /\ ~inRecovery')
       => \E t \in OperatorTexts : sentMessage' = InterruptMessage(t)]_vars

\* C9: when the soft-interrupt rendezvous is resolved with nothing, run()
\* returns ABORTED at once (no recovery turn follows).
C9_EmptyRendezvousReturnsAborted ==
  [][RendezvousResolve(NULL) => (pc' = "done" /\ terminateReason' = ABORTED)]_vars

\* C10: a step that cancels a handle cancels the handle of the top frame of
\* the stack and nothing else: no other handle changes, and no frame (handle
\* or hardness flag) changes. A parent's handle is therefore cancelled only
\* while the parent is the top frame, that is after endAgentSession() has
\* popped its child.
C10_AbortOnlyTopFrame ==
  [][\A c \in DOMAIN aborted :
       aborted'[c] # aborted[c] =>
         /\ Len(stack) > 0
         /\ stack[Len(stack)].ctrl = c
         /\ stack' = stack]_vars

\* A child frame's handle is cancelled while its parent's handle, set earlier,
\* is not.
C10_Witness ==
  /\ Len(stack) >= 2
  /\ stack[1].ctrl # NoCtrl
  /\ stack[Len(stack)].ctrl # NoCtrl
  /\ stack[Len(stack)].ctrl # stack[1].ctrl
  /\ aborted[stack[Len(stack)].ctrl] # NotAborted
  /\ aborted[stack[1].ctrl] = NotAborted

\* C11: the stack holds the frame run() pushed exactly while run() is in
\* progress: once run() has returned or thrown the depth is again the depth
\* from before its startAgentSession() (the host's one frame), and in between
\* it is one more.
C11_SessionFrameBalanced ==
  /\ pc \in {"done", "thrown"} => Len(stack) = 1
  /\ Active => Len(stack) = 2

\* run() threw in the middle of a turn and its frame is gone.
C11_Witness ==
  /\ pc = "thrown"
  /\ turnCounter >= 1
  /\ Len(stack) = 1

\* C12: a recovery turn is in progress or has been executed only for a run
\* that stopped with TIMEOUT, MAX_TURNS or ERROR_NO_COMPLETE_TASK_CALL; a run
\* that stopped with ABORTED or GOAL returns without one.
C12_RecoveryOnlyForRecoverableReasons ==
  /\ inRecovery => originalReason \in Recoverable
  /\ (pc = "done" /\ terminateReason = ABORTED) => ~inRecovery
  /\ (pc = "done" /\ terminateReason = GOAL /\ inRecovery) => originalReason # GOAL

\* The recovery turn is under way for a run that timed out.
C12_Witness ==
  /\ pc = "model"
  /\ inRecovery
  /\ originalReason = TIMEOUT

\* The output of the first acceptable complete_task of the processed turn, as
\* executeTurn hands it on.
AcceptedResult ==
  LET f == CHOOSE i \in 1..Len(calls) :
             Acceptable(i) /\ \A j \in 1..(i - 1) : ~Acceptable(j)
  IN IF def.hasOutput THEN calls[f].arg ELSE TextResult

\* C13: once run() has returned after a recovery turn: if that turn processed
\* an acceptable complete_task, the reason is GOAL and the result is that
\* turn's result; otherwise an error activity for the failed recovery was
\* emitted, the reason is the one the recovery was started for, and the result
\* is the failure text of that reason.
C13_RecoveryOutcome ==
  (pc = "done" /\ inRecovery) =>
    IF Processed /\ SomeAcceptable
    THEN /\ terminateReason = GOAL
         /\ result = AcceptedResult
         /\ \A k \in 1..Len(recoveryEvents) : recoveryEvents[k].type # "ERROR"
    ELSE /\ terminateReason = originalReason
         /\ terminateReason \in Recoverable
         /\ result = FailureResult(originalReason, NULL)
         /\ \E k \in 1..Len(recoveryEvents) : recoveryEvents[k].type = "ERROR"

\* run() returned MAX_TURNS after a recovery turn that processed invocations
\* without completing the task.
C13_Witness ==
  /\ pc = "done"
  /\ inRecovery
  /\ Processed
  /\ ~SomeAcceptable
  /\ terminateReason = MAX_TURNS

\* C14: turnCounter counts the regular-turn messages sent to the model (it is
\* incremented with each executeTurn call of the loop), and it never exceeds
\* max_turns; the recovery turn is the last turn of the run: once one has
\* ended (its end is logged) run() has returned, so at most one is executed.
C14_AtMostMaxTurnsPlusOneRecovery ==
  /\ turnCounter <= def.maxTurns
  /\ (pc = "model" /\ ~inRecovery) => turnCounter >= 1
  /\ Len(recoveryEvents) <= Len(RecoveryEnd(originalReason, FALSE))
  /\ Len(recoveryEvents) > 0 => (pc = "done" /\ inRecovery)

\* All max_turns = 2 regular messages were sent and the recovery message is
\* with the model.
C14_Witness ==
  /\ def.maxTurns = 2
  /\ turnCounter = 2
  /\ pc = "model"
  /\ inRecovery
  /\ sentMessage = FinalWarningMessage(MAX_TURNS)

\* C15: once the wall timer has fired, a step that begins a turn (a new turn
\* controller, a message handed to the model) begins the recovery turn, never
\* a regular turn.
C15_NoRegularCallAfterWallTimeout ==
  [][(timeoutAborted /\ TurnEnds /\ pc' = "model") => (inRecovery' /\ ~inRecovery)]_vars

\* C16: with the wall timer fired in a regular turn and no operator key press
\* at all, the executor is never waiting at the soft-interrupt rendezvous.
C16_WallTimeoutNeverWaitsForOperator ==
  (timeoutAborted /\ ~inRecovery /\ presses = 0 /\ opPc = "idle") => pc # "waitInput"

\* C17: once the grace timer of the recovery turn has fired, the executor is
\* never waiting at the soft-interrupt rendezvous: the recovery has failed and
\* run() returns the original reason.
C17_GraceExpiryNeverWaitsForOperator ==
  (inRecovery /\ graceAborted) => pc # "waitInput"

\* C18: with the signal passed to run() cancelled, no step begins a turn with
\* a model call: the step that would begin it returns ABORTED instead.
C18_NoTurnBeginsAfterExternalCancel ==
  [][externalAborted => ~(TurnEnds /\ pc' = "model")]_vars

\* C19: while a message is with the model, and once run() has returned, no
\* tool execution of the run is still running.
C19_NoToolRunningAtModelCallOrReturn ==
  pc \in {"model", "done"} => \A i \in 1..Len(toolState) : toolState[i] # "running"

\* The tool list of definition d declares nothing named complete_task.
DeclaresNoCompleteTask(d) ==
  ~d.hasToolConfig \/ \A i \in 1..Len(d.tools) : d.tools[i].name # TASK_COMPLETE_TOOL_NAME

\* C20: for a definition whose tool list does not contain complete_task, the
\* prepared schema list has exactly one declaration named complete_task; its
\* parameters are the single required output field when an output is specified,
\* and it has no parameters otherwise.
C20_CompleteTaskDeclaredExactlyOnce ==
  (fnOut.returned /\ DeclaresNoCompleteTask(fnIn)) =>
    LET found == {i \in 1..Len(fnOut.toolsList) :
                    fnOut.toolsList[i].name = TASK_COMPLETE_TOOL_NAME}
    IN /\ Cardinality(found) = 1
       /\ \A i \in found :
            IF fnIn.hasOutputConfig
            THEN /\ fnOut.toolsList[i].parameters.present
                 /\ fnOut.toolsList[i].parameters.properties = {fnIn.outputName}
                 /\ fnOut.toolsList[i].parameters.required = <<fnIn.outputName>>
            ELSE ~fnOut.toolsList[i].parameters.present

\* A list prepared for a definition with two tools of its own and no output:
\* three declarations, the last one complete_task without parameters.
C20_Witness ==
  /\ fnOut.returned
  /\ DeclaresNoCompleteTask(fnIn)
  /\ fnIn.hasToolConfig
  /\ ~fnIn.hasOutputConfig
  /\ Len(fnOut.toolsList) = 3
  /\ fnOut.toolsList[3] = [name |-> TASK_COMPLETE_TOOL_NAME, parameters |-> NoParameters]

\* Invocation i of the processed turn was executed and its tool reported an error.
ToolFailed(i) == toolState[i] = "err"

\* C21: after a turn without completion in which every invocation failed or
\* was rejected as unauthorized, the next user message contains the diagnostic
\* text part.
C21_AllFailedAddsDiagnostic ==
  (/\ Processed
   /\ ~taskCompleted
   /\ \A i \in 1..Len(calls) : ToolFailed(i) \/ IsUnauthorized(i))
  => \E k \in 1..Len(Parts) : Parts[k] = DiagnosticPart

\* C22: the summarizer is called for a tool response only when the run
\* configuration sets the flag and the execution succeeded; a failed execution's
\* response is never summarized and keeps its content.
C22_SummarizedOnlyOnSuccess ==
  fnOut.returned =>
    /\ fnOut.summarizeCalled => (fnIn.summarizeToolOutput /\ ~fnIn.error)
    /\ fnIn.error => fnOut.llmContent = fnIn.llmContent

\* C23: the history of the local chat adapter alternates strictly: user
\* messages at the odd positions, model messages at the even ones.
C23_HistoryAlternates ==
  \A k \in 1..Len(chatSession.history) :
    chatSession.history[k] = IF k % 2 = 1 THEN "user" ELSE "model"

\* C24: after any number of runs the definition, reminder text included,
\* equals the definition the host created.
C24_DefinitionNeverMutated == fnOut.definition = fnIn

\* C25: on the local-model path with an output specification, a text without
\* parsed invocations becomes exactly one complete_task invocation whose
\* argument is the JSON value of the text when it parses and the raw text
\* otherwise; such a run never stops for a missing complete_task call.
C25_TextBecomesCompletionAttempt ==
  /\ \A d \in {x \in Definitions : x.hasOutput} :
       /\ completeTaskFallback("\"v1\"", d) = <<[name |-> TASK_COMPLETE_TOOL_NAME, arg |-> "v1"]>>
       /\ completeTaskFallback("v1", d) = <<[name |-> TASK_COMPLETE_TOOL_NAME, arg |-> "v1"]>>
       /\ completeTaskFallback("invalid", d) = <<[name |-> TASK_COMPLETE_TOOL_NAME, arg |-> "invalid"]>>
  /\ (def.isLocal /\ def.hasOutput) =>
       /\ terminateReason # ERROR_NO_COMPLETE_TASK_CALL
       /\ originalReason # ERROR_NO_COMPLETE_TASK_CALL

\* A local-model run that ended with GOAL in its first turn on a single
\* complete_task carrying the accepted text.
C25_Witness ==
  /\ def.isLocal /\ def.hasOutput
  /\ pc = "done"
  /\ terminateReason = GOAL
  /\ ~inRecovery
  /\ turnCounter = 1
  /\ calls = <<[name |-> TASK_COMPLETE_TOOL_NAME, arg |-> "v1"]>>
  /\ result = "v1"

\* C26: for a definition without output specification, when turn 1 was one
\* successful tool invocation and the model answers turn 2 with complete_task
\* alone, run() returns GOAL with the result "Task completed successfully.".
C26_PlainCompletionResult ==
  [][(/\ ~def.hasOutput
      /\ pc = "model" /\ ~inRecovery /\ turnCounter = 2
      /\ calls = <<[name |-> "ls", arg |-> "none"]>>
      /\ toolState = <<"ok">>
      /\ Len(calls') = 1
      /\ calls'[1].name = TASK_COMPLETE_TOOL_NAME
      /\ pc' = "done")
     => (terminateReason' = GOAL /\ result' = "Task completed successfully.")]_vars

\* The tools create() registers for definition d: names the host registry
\* resolves and tool instances; raw declarations and unresolved names are not.
RegisteredEntry(d, i) ==
  \/ d.tools[i].kind = "instance"
  \/ d.tools[i].kind = "name" /\ d.tools[i].name \in RegisteredTools

C28_ParseInvertsStringify ==
  fnOut.returned =>
    /\ fnOut.plain = <<[name |-> fnIn.name, args |-> fnIn.value]>>
    /\ fnOut.fenced = fnOut.plain

\* C29: a step that cancels a handle gives it the reason DOUBLE_INTERRUPT when
\* the hard flag of the current frame is true and SINGLE_INTERRUPT otherwise;
\* a step that hands a new handle to the manager leaves the current frame with
\* that handle, not cancelled, and with the hard flag false. The first
\* abortCurrent() after it, with no setHardAbort(true) in between, therefore
\* cancels with SINGLE_INTERRUPT.
C29_AbortReasonFollowsHardFlag ==
  [][/\ \A c \in DOMAIN aborted :
          aborted'[c] # aborted[c] =>
            /\ Len(stack) > 0
            /\ aborted'[c] = IF stack[Len(stack)].isHard
                             THEN DOUBLE_INTERRUPT ELSE SINGLE_INTERRUPT
     /\ (nextCtrl' # nextCtrl /\ Len(stack) > 0) =>
          /\ stack'[Len(stack')].ctrl = nextCtrl'
          /\ stack'[Len(stack')].isHard = FALSE
          /\ aborted'[nextCtrl'] = NotAborted]_vars

\* The handle of one turn was cancelled with DOUBLE_INTERRUPT and the handle
\* installed after it, now the current frame's, with SINGLE_INTERRUPT.
C29_Witness ==
  /\ Len(stack) > 0
  /\ stack[Len(stack)].ctrl # NoCtrl
  /\ aborted[stack[Len(stack)].ctrl] = SINGLE_INTERRUPT
  /\ \E c \in DOMAIN aborted :
       c < stack[Len(stack)].ctrl /\ aborted[c] = DOUBLE_INTERRUPT

\* C30: when the model call returns softly cancelled and the UI has already
\* stored the operator's text t and marked the interrupt handled, the executor
\* does not wait on the rendezvous, the handled mark and the stored text are
\* cleared in the same step (a later interrupt finds nothing stored unless the
\* UI stores a text again), and in a regular turn below the turn limit the
\* next model call carries t alone.
C30_PresetTextTakenOnceWithoutWaiting ==
  [][\A t \in OperatorTexts :
       (/\ pc = "model"
        /\ aborted[turnCtrl] = SINGLE_INTERRUPT
        /\ ~isCurrentInterruptHard(stack)
        /\ interruptHandled
        /\ interruptUserInput = t
        /\ ModelReturnsAborted)
         => /\ pc' # "waitInput"
            /\ interruptHandled' = FALSE
            /\ interruptUserInput' = NULL
            /\ (~inRecovery /\ turnCounter < def.maxTurns) =>
                 (pc' = "model" /\ ~inRecovery' /\ sentMessage' = InterruptMessage(t))]_vars

\* The model call of a regular turn below the turn limit is softly cancelled
\* and the UI has stored the operator's text and marked the interrupt handled:
\* the call's return is the step the executor takes the text in.
C30_Witness ==
  /\ pc = "model"
  /\ ~inRecovery
  /\ turnCounter < def.maxTurns
  /\ aborted[turnCtrl] = SINGLE_INTERRUPT
  /\ ~isCurrentInterruptHard(stack)
  /\ interruptHandled
  /\ interruptUserInput = "focus on tests instead"

\* The RecoveryAttemptEvent records logged so far.
RecoveryAttempts ==
  SelectSeq(recoveryEvents, LAMBDA e : e.type = "RecoveryAttemptEvent")

\* C31: no RecoveryAttemptEvent is logged before the recovery turn has ended;
\* once it has ended (run() has returned after it) exactly one is logged, it
\* carries the reason the recovery was started for, and its success flag is
\* true exactly when the run's reason is GOAL, which is exactly when the
\* recovery turn processed an acceptable complete_task.
C31_OneRecoveryAttemptRecord ==
  IF pc = "done" /\ inRecovery
  THEN /\ Len(RecoveryAttempts) = 1
       /\ RecoveryAttempts[1].reason = originalReason
       /\ RecoveryAttempts[1].success = (terminateReason = GOAL)
       /\ (terminateReason = GOAL) = (Processed /\ SomeAcceptable)
  ELSE RecoveryAttempts = <<>>

\* run() returned GOAL after a recovery turn started for MAX_TURNS, and the
\* record of a successful attempt is logged.
C31_Witness ==
  /\ pc = "done"
  /\ inRecovery
  /\ terminateReason = GOAL
  /\ originalReason = MAX_TURNS
  /\ \E k \in 1..Len(recoveryEvents) :
       recoveryEvents[k] =
         [type |-> "RecoveryAttemptEvent", reason |-> MAX_TURNS, success |-> TRUE]

\* The position of the most recent tool_call item before position k, 0 if none.
LastToolCallBefore(k) ==
  LET cs == {j \in 1..(k - 1) : fnIn[j].type = "tool_call"}
  IN IF cs = {} THEN 0 ELSE CHOOSE j \in cs : \A i \in cs : i <= j

\* The turns of the processed history whose response holds the chunk of position k.
TurnsHolding(k) ==
  {n \in 1..Len(fnOut.acc) :
     /\ fnOut.acc[n].toolResponse.present
     /\ \E m \in 1..Len(fnOut.acc[n].toolResponse.output) :
          fnOut.acc[n].toolResponse.output[m] = k}

\* C32: the tool_output_chunk just reduced sits in the response of the turn
\* that holds the most recent tool_call before it; it sits in a response with an
\* empty name, in a turn without a tool call, only when no tool_call precedes
\* it.
C32_ChunkGoesToLatestToolCall ==
  (fnOut.pos > 0 /\ fnIn[fnOut.pos].type = "tool_output_chunk") =>
    /\ TurnsHolding(fnOut.pos) # {}
    /\ \A n \in TurnsHolding(fnOut.pos) :
         IF LastToolCallBefore(fnOut.pos) # 0
         THEN fnOut.acc[n].toolCall = LastToolCallBefore(fnOut.pos)
         ELSE fnOut.acc[n].toolCall = 0 /\ fnOut.acc[n].toolResponse.name = ""

C34_TurnHandleIsFrameHandle ==
  InTurn => (Len(stack) > 0 /\ getCurrentContext(stack).ctrl = turnCtrl)

\* C35: once the cancellation of the turn has fired, no further chunk of the
\* stream is processed and no further THOUGHT_CHUNK is emitted for it, and the
\* invocations collected from the stream are not dispatched to tools.
C35_CancelledStreamIsDropped ==
  fnOut.signalAborted =>
    /\ fnOut.processed = fnOut.atAbort.processed
    /\ fnOut.events = fnOut.atAbort.events
    /\ fnOut.phase # "dispatched"

\* The cancellation fired in mid-stream after a chunk with a thought and an
\* invocation had been processed; a chunk was still to come and executeTurn
\* has stopped without dispatching.
C35_Witness ==
  /\ fnOut.signalAborted
  /\ fnOut.phase = "cancelled"
  /\ fnOut.pos < Len(fnIn.chunks)
  /\ fnOut.events > 0
  /\ fnOut.functionCalls > 0

\* The positions in the event log of the events of invocation i with a type in T.
EventsOf(i, T) ==
  {k \in 1..Len(fnOut.events) : fnOut.events[k].idx = i /\ fnOut.events[k].type \in T}

\* The invocation i was accepted: a complete_task that completed the task.
CompletesTask(i) ==
  /\ fnIn.calls[i] \in {"complete", "completeInvalid", "completeMissing"}
  /\ (fnIn.hasOutput => fnIn.calls[i] = "complete")
  /\ \A j \in 1..(i - 1) :
       ~(/\ fnIn.calls[j] \in {"complete", "completeInvalid", "completeMissing"}
         /\ (fnIn.hasOutput => fnIn.calls[j] = "complete"))

\* C36: once the loop of processFunctionCalls has run, every invocation has
\* exactly one TOOL_CALL_START; it has at most one terminal event (TOOL_CALL_END
\* or ERROR), none before its start, and exactly one as soon as it is no longer
\* executing; the terminal event of an invocation that is not a tool call is
\* TOOL_CALL_END for the complete_task that completed the task and ERROR for
\* an unauthorized, duplicate or invalid one.
C36_OneStartThenOneTerminalEvent ==
  fnOut.phase # "called" =>
    \A i \in 1..Len(fnIn.calls) :
      /\ Cardinality(EventsOf(i, {"TOOL_CALL_START"})) = 1
      /\ Cardinality(EventsOf(i, {"TOOL_CALL_END", "ERROR"})) =
           (IF fnOut.state[i] = "running" THEN 0 ELSE 1)
      /\ \A k \in EventsOf(i, {"TOOL_CALL_END", "ERROR"}) :
           \E s \in EventsOf(i, {"TOOL_CALL_START"}) : s < k
      /\ fnIn.calls[i] # "tool" =>
           EventsOf(i, IF CompletesTask(i) THEN {"TOOL_CALL_END"} ELSE {"ERROR"}) # {}

\* processFunctionCalls returned for a turn with an accepted complete_task
\* followed by a duplicate one, each with its start and its terminal event.
C36_Witness ==
  /\ fnOut.phase = "returned"
  /\ fnIn.calls = <<"complete", "complete">>
  /\ fnOut.events = <<Activity("TOOL_CALL_START", 1), Activity("TOOL_CALL_END", 1),
                      Activity("TOOL_CALL_START", 2), Activity("ERROR", 2)>>

\* The frames of the stack that run r pushed.
FramesOf(r) == {k \in 1..Len(fnOut.owners) : fnOut.owners[k] = r}

\* C37: every sub-agent run that has started and not ended has the frame it
\* pushed on the stack; while it is in a turn that frame holds the handle the
\* run installed for the turn; and the top frame, the one abortCurrent()
\* cancels, is a frame of a run that has not ended.
C37_RunOperatesOnItsOwnFrame ==
  /\ \A r \in 1..MaxRuns :
       fnOut.runs[r].pc \in {"creating", "turn"} =>
         /\ FramesOf(r) # {}
         /\ fnOut.runs[r].pc = "turn" =>
              \A k \in FramesOf(r) : stack[k].ctrl = fnOut.runs[r].ctrl
  /\ \A k \in 1..Len(fnOut.owners) :
       (k = Len(fnOut.owners) /\ fnOut.owners[k] # 0) =>
         fnOut.runs[fnOut.owners[k]].pc # "ended"

\* C38: while the stack is empty or its top frame holds no turn handle, no
\* step of the manager cancels any handle, the parent frame's included; on an
\* empty stack endAgentSession(), setHardAbort() and abortCurrent() leave the
\* stack empty (only startAgentSession() changes it, to depth one), and with
\* a handle-less top frame the frames below it are never changed.
C38_NoHandleNothingCancelled ==
  [][(Len(stack) = 0 \/ stack[Len(stack)].ctrl = NoCtrl) =>
       /\ \A c \in DOMAIN aborted : aborted'[c] = aborted[c]
       /\ Len(stack) = 0 => stack' \in {stack, startAgentSession(stack)}
       /\ Len(stack) > 0 =>
            \A k \in 1..(Len(stack) - 1) :
              Len(stack') >= k => stack'[k] = stack[k]]_vars

\* A child frame without a handle on top of a parent whose handle is live,
\* after an earlier handle was cancelled by abortCurrent().
C38_Witness ==
  /\ Len(stack) >= 2
  /\ stack[Len(stack)].ctrl = NoCtrl
  /\ stack[Len(stack) - 1].ctrl # NoCtrl
  /\ aborted[stack[Len(stack) - 1].ctrl] = NotAborted
  /\ \E c \in DOMAIN aborted : aborted[c] # NotAborted

\* C39: a run() that has started eventually returns or throws, given that the
\* promises it awaits are settled, cancelled streams are left and the timers
\* fire (max_turns is at least 1 in every definition).
C39_RunTerminates == (pc = "creating") ~> (pc \in {"done", "thrown"})

\* run() returned after the turn limit, a soft interrupt and the wall timer.
C39_Witness ==
  /\ pc = "done"
  /\ originalReason = MAX_TURNS
  /\ timeoutAborted
  /\ presses > 0

\* C40: on the remote path, right after tryCompressChat: an INFLATED result
\* leaves the latch true and the history as it was; a COMPRESSED result with
\* a new history makes that the chat history and clears the latch; a NONE
\* result leaves both as they were; and at every point after an INFLATED
\* result the latch is true until a COMPRESSED result with a new history has
\* been applied.
C40_LatchFollowsCompressionResult ==
  /\ fnOut.inflated => fnOut.latch
  /\ (fnOut.phase = "callModel" /\ fnOut.compressions > 0) =>
       /\ fnOut.last.status = COMPRESSION_FAILED_INFLATED_TOKEN_COUNT =>
            (fnOut.latch /\ chatSession.history = fnOut.before.history)
       /\ (fnOut.last.status = COMPRESSED /\ fnOut.last.hasNew) =>
            (~fnOut.latch /\ chatSession.history = fnOut.last.newHistory)
       /\ fnOut.last.status = "NONE" =>
            /\ fnOut.latch = fnOut.before.latch
            /\ chatSession.history = fnOut.before.history

\* A turn after the one that set the latch: the service answered NONE, the
\* latch is still true and the history, which has grown since, is untouched.
C40_Witness ==
  /\ fnOut.phase = "callModel"
  /\ fnOut.compressions >= 2
  /\ fnOut.last.status = "NONE"
  /\ fnOut.inflated
  /\ fnOut.latch
  /\ Len(chatSession.history) >= 2

====
